---- MODULE Spec2Model ----
(***************************************************************************)
(* Order lifecycle and real-time broadcast core of olgFeast.               *)
(*                                                                         *)
(* The FastAPI back end (fastapi_app/app) keeps orders, order lines and    *)
(* carts in a relational store and a process-wide ConnectionManager; the   *)
(* Django front end (shopping_cart, operations) keeps transactions and     *)
(* inventories in its own tables.  Both are modelled here.                 *)
(***************************************************************************)
EXTENDS Integers, Sequences, FiniteSets, TLC

(* ------------------------------ bounds -------------------------------- *)
\* Display ids run over 1..MaxDisplayId.  The code uses 999
\* (order_service.py:61-63); the range is scaled down so that the
\* wrap-around and the gap scan are exercised.
MaxDisplayId == 2
\* Number of distinct reference codes the random generator can draw; one
\* more than the display ids, so that codes do not run out before them.
NumRefCodes == 3
\* Largest clock value.
MaxTime == 2
\* Largest quantity of one cart line.
MaxQty == 2
\* Number of Django transactions.
MaxTransactions == 2
\* Number of broadcast passes.
MaxMessages == 2

Users == {1, 2}
\* The users that check out through the FastAPI back end.
ApiUsers == {1}
\* The users that check out through the Django front end.
SiteUsers == {1}
FoodItems == 1..2
\* The food items on the FastAPI menu.
MenuItems == {1}
Workers == 1..2
RefCodes == 1..NumRefCodes
\* WebSocket objects; each one serves one connection.
Sockets == {1, 2, 3}
\* The keys of ConnectionManager.active_connections.
Channels == {"kitchen_display", "order_updates", "admin_dashboard"}

PENDING == "pending"
PREPARING == "preparing"
READY == "ready"
COMPLETE == "complete"
\* OrderStatus enum, in declaration order.
OrderStatus == {PENDING, PREPARING, READY, COMPLETE}
\* A status string outside the enum, as a client may send it.
INVALID_STATUS == "invalid_status"
\* NULL in a nullable DateTime column.
NULL == 0

VARIABLES
    now,            \* wall clock (datetime.utcnow / func.now)
    orders,         \* table "orders": sequence of rows, id = index
    order_items,    \* table "order_items": sequence of rows
    carts,          \* users that have a row in table "carts"
    cart_items,     \* table "cart_items", per cart owner: sequence of rows
    co,             \* per worker thread: locals of OrderService.create_order
    up,             \* per worker thread: locals of a status update request
    events,         \* events handed to the broadcaster
    transactions,   \* Django table shopping_cart_transaction
    inventory,      \* Django table shopping_cart_item, per user
    active_connections, \* ConnectionManager.active_connections
    connection_info,    \* ConnectionManager.connection_info
    client_state,   \* per websocket: WebSocket.client_state
    broken,         \* per websocket: its transport fails, send_text raises
    received,       \* per websocket: the messages sent to it, in order
    bc,             \* the running broadcast_to_channel pass
    published,      \* number of broadcast passes started
    pub,            \* the broadcaster: the event it publishes, the events taken
    ca,             \* per worker thread: locals of POST /cart/items
    analytics,      \* the last answer of GET /dashboard/analytics
    joining         \* websockets whose connect call awaits _send_initial_data

vars == <<now, orders, order_items, carts, cart_items, co, up, events,
          transactions, inventory, active_connections, connection_info,
          client_state, broken, received, bc, published, pub, ca, analytics,
          joining>>

wsVars == <<active_connections, connection_info, client_state, broken,
            received, bc, published, pub, joining>>

fastapiVars == <<orders, order_items, carts, cart_items, co, up, ca, analytics>>
djangoVars == <<transactions, inventory>>

(* ------------------------------ helpers ------------------------------- *)
SetMax(S) == CHOOSE x \in S : \A y \in S : y <= x
SetMin(S) == CHOOSE x \in S : \A y \in S : x <= y

OrderIds == 1..Len(orders)
DisplayIds(os) == {os[i].display_id : i \in 1..Len(os)}
RefCodesOf(os) == {os[i].ref_code : i \in 1..Len(os)}

\* The order lines of one order, in insertion order.
LinesOf(items, id) == SelectSeq(items, LAMBDA l : l.order_id = id)

IdleCo == [pc |-> "idle", user_id |-> 0, ref_code |-> 0, display_id |-> 0,
           order_id |-> 0, result |-> "-"]
IdleUp == [pc |-> "idle", entry |-> "-", order_id |-> 0, old_status |-> "-",
           new_status |-> "-", result |-> "-"]
IdleCa == [pc |-> "idle", user_id |-> 0, food_item_id |-> 0, quantity |-> 0,
           existing_item |-> 0, loaded |-> 0]
\* No analytics request has been answered.
NoAnalytics == [answered |-> FALSE]

(* ------------------------- Identifier allocator ------------------------ *)
get_next_display_id_no_wrap(os) ==
    IF Len(os) = 0 THEN 1 ELSE SetMax(DisplayIds(os)) + 1
\* OrderService._get_next_display_id
get_next_display_id(os) ==
    IF Len(os) = 0 THEN 1
    ELSE LET current_max == SetMax(DisplayIds(os))
             gaps == (1..MaxDisplayId) \ DisplayIds(os)
         IN  IF current_max >= MaxDisplayId
             THEN IF gaps # {} THEN SetMin(gaps) ELSE 1
             ELSE current_max + 1

\* Column ref_code is declared unique=True: an insert of a held code fails.
RefCodeUnique(os, code) == code \notin RefCodesOf(os)

DisplayIdUnconstrained(os, d) == TRUE
\* uq_orders_display_id: an insert of a held display_id fails.
DisplayIdUnique(os, d) == d \notin DisplayIds(os)

(* ------------------------------ the clock ------------------------------ *)
Tick ==
    /\ now < MaxTime
    /\ now' = now + 1
    /\ UNCHANGED <<fastapiVars, events, djangoVars>>
    /\ UNCHANGED wsVars

(* ------------------------------ FastAPI cart --------------------------- *)
\* CartService.add_item_to_cart: creates the cart on first use, then adds
\* the quantity to the existing line of that food item or appends a line.
add_item_to_cart(u, f, q) ==
    /\ LET idx == {k \in 1..Len(cart_items[u]) : cart_items[u][k].food_item_id = f}
       IN  IF idx # {}
           THEN LET k == SetMin(idx)
                IN  /\ cart_items[u][k].quantity + q <= MaxQty
                    /\ cart_items' = [cart_items EXCEPT ![u][k].quantity = @ + q]
           ELSE cart_items' = [cart_items EXCEPT
                    ![u] = Append(@, [food_item_id |-> f, quantity |-> q])]
    /\ carts' = carts \cup {u}
    /\ UNCHANGED <<now, orders, order_items, co, up, events, djangoVars, ca, analytics>>
    /\ UNCHANGED wsVars

\* POST /cart/items, lines 59-72: the food item exists, the cart is created
\* on first use, and the line of the food item is looked up.  The session
\* holds the line as it was read.
add_item_query(w, u, f, q) ==
    /\ ca[w].pc = "idle"
    /\ carts' = carts \cup {u}
    /\ LET idx == {k \in 1..Len(cart_items[u]) : cart_items[u][k].food_item_id = f}
       IN  ca' = [ca EXCEPT ![w] =
                [pc |-> "queried", user_id |-> u, food_item_id |-> f, quantity |-> q,
                 existing_item |-> IF idx = {} THEN 0 ELSE SetMin(idx),
                 loaded |-> IF idx = {} THEN 0 ELSE cart_items[u][SetMin(idx)].quantity]]
    /\ UNCHANGED <<now, orders, order_items, cart_items, co, up, events, djangoVars, analytics>>
    /\ UNCHANGED wsVars

\* POST /cart/items, lines 74-90: the quantity read plus the quantity added
\* is written to the line that was found, or a new line is inserted when
\* none was found.  A line that is gone by now makes the UPDATE fail.
add_item_commit(w) ==
    /\ ca[w].pc = "queried"
    /\ LET u == ca[w].user_id
           k == ca[w].existing_item
       IN  IF k # 0
           THEN /\ ca[w].loaded + ca[w].quantity <= MaxQty
                /\ IF k <= Len(cart_items[u])
                      /\ cart_items[u][k].food_item_id = ca[w].food_item_id
                   THEN cart_items' = [cart_items EXCEPT
                            ![u][k].quantity = ca[w].loaded + ca[w].quantity]
                   ELSE UNCHANGED cart_items
           ELSE cart_items' = [cart_items EXCEPT
                    ![u] = Append(@, [food_item_id |-> ca[w].food_item_id,
                                      quantity |-> ca[w].quantity])]
    /\ ca' = [ca EXCEPT ![w] = IdleCa]
    /\ UNCHANGED <<now, orders, order_items, carts, co, up, events, djangoVars, analytics>>
    /\ UNCHANGED wsVars

\* The cart row of position k without it.
RemoveAt(lines, k) == SubSeq(lines, 1, k - 1) \o SubSeq(lines, k + 1, Len(lines))

\* PUT /cart/items/{item_id}: the quantity of the request is written to the
\* line as it is.
update_cart_item(u, k, quantity) ==
    /\ u \in carts
    /\ k \in 1..Len(cart_items[u])
    /\ cart_items' = [cart_items EXCEPT ![u][k].quantity = quantity]
    /\ UNCHANGED <<now, orders, order_items, carts, co, up, events, djangoVars, ca, analytics>>
    /\ UNCHANGED wsVars

\* POST /cart/items/{item_id}/increase.
increase_item_quantity(u, k) ==
    /\ u \in carts
    /\ k \in 1..Len(cart_items[u])
    /\ cart_items[u][k].quantity < MaxQty
    /\ cart_items' = [cart_items EXCEPT ![u][k].quantity = @ + 1]
    /\ UNCHANGED <<now, orders, order_items, carts, co, up, events, djangoVars, ca, analytics>>
    /\ UNCHANGED wsVars

\* POST /cart/items/{item_id}/decrease: one less, and the line is deleted
\* when that leaves no unit.
decrease_item_quantity(u, k) ==
    /\ u \in carts
    /\ k \in 1..Len(cart_items[u])
    /\ IF cart_items[u][k].quantity - 1 <= 0
       THEN cart_items' = [cart_items EXCEPT ![u] = RemoveAt(@, k)]
       ELSE cart_items' = [cart_items EXCEPT ![u][k].quantity = @ - 1]
    /\ UNCHANGED <<now, orders, order_items, carts, co, up, events, djangoVars, ca, analytics>>
    /\ UNCHANGED wsVars

(* ------------------------ OrderService.create_order -------------------- *)
\* Lines 99-102: the cart check.  No cart or no lines: return None.
create_order_begin(w, u) ==
    /\ co[w].pc = "idle"
    /\ IF u \notin carts \/ cart_items[u] = <<>>
       THEN co' = [co EXCEPT ![w] = [IdleCo EXCEPT !.user_id = u, !.result = "None"]]
       ELSE co' = [co EXCEPT ![w] = [IdleCo EXCEPT !.pc = "ref", !.user_id = u]]
    /\ UNCHANGED <<now, orders, order_items, carts, cart_items, up, events, djangoVars, ca, analytics>>
    /\ UNCHANGED wsVars

\* Line 105, _ensure_unique_ref_code: draws codes until one is not held by
\* an order in the store; the result is any code that was free at that time.
ensure_unique_ref_code(w) ==
    /\ co[w].pc = "ref"
    /\ \E code \in RefCodes :
          /\ code \notin RefCodesOf(orders)
          /\ co' = [co EXCEPT ![w].ref_code = code, ![w].pc = "disp"]
    /\ UNCHANGED <<now, orders, order_items, carts, cart_items, up, events, djangoVars, ca, analytics>>
    /\ UNCHANGED wsVars

\* Line 106.
create_order_display_id(w) ==
    /\ co[w].pc = "disp"
    /\ co' = [co EXCEPT ![w].display_id = get_next_display_id(orders),
                        ![w].pc = "insert"]
    /\ UNCHANGED <<now, orders, order_items, carts, cart_items, up, events, djangoVars, ca, analytics>>
    /\ UNCHANGED wsVars

\* order_data.customer_name of the request: each user orders under one
\* name.
customer_name(u) == u

\* Lines 109-118: insert the order row and commit.  A uniqueness violation
\* raises; lines 137-140 roll back and return None.
create_order_insert(w) ==
    /\ co[w].pc = "insert"
    /\ IF RefCodeUnique(orders, co[w].ref_code)
          /\ DisplayIdUnique(orders, co[w].display_id)
       THEN /\ orders' = Append(orders,
                  [display_id |-> co[w].display_id,
                   ref_code |-> co[w].ref_code,
                   user_id |-> co[w].user_id,
                   customer_name |-> customer_name(co[w].user_id),
                   status |-> PENDING,
                   date_ordered |-> now,
                   date_preparing |-> NULL,
                   date_ready |-> NULL,
                   date_complete |-> NULL,
                   last_status_change |-> now])
            /\ co' = [co EXCEPT ![w].order_id = Len(orders) + 1, ![w].pc = "items"]
       ELSE /\ co' = [co EXCEPT ![w] = [IdleCo EXCEPT !.user_id = co[w].user_id,
                                                      !.result = "None"]]
            /\ UNCHANGED orders
    /\ UNCHANGED <<now, order_items, carts, cart_items, up, events, djangoVars, ca, analytics>>
    /\ UNCHANGED wsVars

\* OrderService._add_cart_items_to_order: one order line per cart line,
\* carrying the cart line's quantity.
add_cart_items_to_order(order_id, lines) ==
    [k \in 1..Len(lines) |->
        [order_id |-> order_id,
         food_item_id |-> lines[k].food_item_id,
         quantity |-> lines[k].quantity]]

\* OrderService._clear_user_cart: deletes every cart_items row of the cart.
clear_user_cart(ci, u) == [ci EXCEPT ![u] = <<>>]

\* Lines 121-135: the cart lines are read again (the session expired its
\* objects at the first commit), copied to order lines, the cart is cleared,
\* the second commit makes both visible, and the new-order event is handed
\* to the broadcaster.
create_order_items(w) ==
    /\ co[w].pc = "items"
    /\ LET u == co[w].user_id
           id == co[w].order_id
       IN  /\ order_items' = order_items \o add_cart_items_to_order(id, cart_items[u])
           /\ cart_items' = clear_user_cart(cart_items, u)
           /\ events' = events \cup {[type |-> "new_order", order_id |-> id,
                                      source |-> "fastapi"]}
           /\ co' = [co EXCEPT ![w] = [IdleCo EXCEPT !.user_id = u,
                                                     !.order_id = id,
                                                     !.result = "order"]]
    /\ UNCHANGED <<now, orders, carts, up, djangoVars, ca, analytics>>
    /\ UNCHANGED wsVars

\* Lines 121-126 raise (the store rejects the second commit): lines 137-140
\* roll back the uncommitted part and return None.  The order row of the
\* first commit stays.
create_order_items_fail(w) ==
    /\ co[w].pc = "items"
    /\ co' = [co EXCEPT ![w] = [IdleCo EXCEPT !.user_id = co[w].user_id,
                                              !.result = "None"]]
    /\ UNCHANGED <<now, orders, order_items, carts, cart_items, up, events, djangoVars, ca, analytics>>
    /\ UNCHANGED wsVars

(* ---------------------------- Lifecycle engine ------------------------ *)
update_order_timing_wrong_column(order, old_status, new_status, t) ==
    IF new_status = PREPARING /\ old_status = PENDING
    THEN [order EXCEPT !.date_preparing = t]
    ELSE IF new_status = READY /\ old_status = PREPARING
    THEN [order EXCEPT !.date_preparing = t]
    ELSE IF new_status = COMPLETE /\ old_status = READY
    THEN [order EXCEPT !.date_complete = t]
    ELSE order
\* The timing rule shared by OrderService._update_order_timing and the two
\* inlined copies of it: only the three expected forward steps stamp.
update_order_timing(order, old_status, new_status, t) ==
    IF new_status = PREPARING /\ old_status = PENDING
    THEN [order EXCEPT !.date_preparing = t]
    ELSE IF new_status = READY /\ old_status = PREPARING
    THEN [order EXCEPT !.date_ready = t]
    ELSE IF new_status = COMPLETE /\ old_status = READY
    THEN [order EXCEPT !.date_complete = t]
    ELSE order

service_update_load_notifies(w, id, new_status) ==
    /\ up[w].pc = "idle"
    /\ IF id \in OrderIds
       THEN /\ up' = [up EXCEPT ![w] = [pc |-> "loaded", entry |-> "service",
                       order_id |-> id, old_status |-> orders[id].status,
                       new_status |-> new_status, result |-> "-"]]
            /\ UNCHANGED events
       ELSE /\ up' = [up EXCEPT ![w] = [IdleUp EXCEPT !.order_id = id,
                                                      !.result = "None"]]
            /\ events' = events \cup {[type |-> "order_status_change",
                                       order_id |-> id, source |-> "service"]}
    /\ UNCHANGED <<now, orders, order_items, carts, cart_items, co, djangoVars, ca, analytics>>
    /\ UNCHANGED wsVars
\* OrderService.update_order_status, line 241-244: load the order; a
\* missing order returns None.
service_update_load(w, id, new_status) ==
    /\ up[w].pc = "idle"
    /\ IF id \in OrderIds
       THEN up' = [up EXCEPT ![w] = [pc |-> "loaded", entry |-> "service",
                       order_id |-> id, old_status |-> orders[id].status,
                       new_status |-> new_status, result |-> "-"]]
       ELSE up' = [up EXCEPT ![w] = [IdleUp EXCEPT !.order_id = id,
                                                   !.result = "None"]]
    /\ UNCHANGED <<now, orders, order_items, carts, cart_items, co, events, djangoVars, ca, analytics>>
    /\ UNCHANGED wsVars

FlushOrderDropsName(row, old_status, new_status, t) ==
    update_order_timing(
        [row EXCEPT !.status = new_status, !.customer_name = NULL],
        old_status, new_status, t)
\* The row as the unit of work writes it back: the status (when it differs
\* from the loaded one) and the stamped column; the other columns keep the
\* values they have in the store.
FlushOrder(row, old_status, new_status, t) ==
    update_order_timing(
        IF new_status # old_status THEN [row EXCEPT !.status = new_status] ELSE row,
        old_status, new_status, t)

\* OrderService.update_order_status, lines 246-261: write the status, stamp,
\* commit, hand the status-changed event to the broadcaster.
service_update_commit(w) ==
    /\ up[w].pc = "loaded"
    /\ up[w].entry = "service"
    /\ LET id == up[w].order_id
       IN  /\ orders' = [orders EXCEPT ![id] =
                  FlushOrder(@, up[w].old_status, up[w].new_status, now)]
           /\ events' = events \cup {[type |-> "order_status_change",
                                      order_id |-> id, source |-> "service"]}
    /\ up' = [up EXCEPT ![w] = [IdleUp EXCEPT !.result = "order"]]
    /\ UNCHANGED <<now, order_items, carts, cart_items, co, djangoVars, ca, analytics>>
    /\ UNCHANGED wsVars

api_update_load_emits_first(w, id, status) ==
    /\ up[w].pc = "idle"
    /\ IF id \notin OrderIds
       THEN /\ up' = [up EXCEPT ![w] = [IdleUp EXCEPT !.order_id = id,
                                                      !.result = "404"]]
            /\ UNCHANGED events
       ELSE IF status \notin OrderStatus
       THEN /\ up' = [up EXCEPT ![w] = [IdleUp EXCEPT !.result = "400"]]
            /\ UNCHANGED events
       ELSE /\ up' = [up EXCEPT ![w] = [pc |-> "loaded", entry |-> "api",
                       order_id |-> id, old_status |-> orders[id].status,
                       new_status |-> status, result |-> "-"]]
            /\ events' = events \cup {[type |-> "order_status_change",
                                       order_id |-> id, source |-> "api"]}
    /\ UNCHANGED <<now, orders, order_items, carts, cart_items, co, djangoVars, ca, analytics>>
    /\ UNCHANGED wsVars
\* PUT /orders/{order_id}/status, lines 191-210: load the order (404 when
\* missing), then reject a status string outside the enum with 400.
api_update_load(w, id, status) ==
    /\ up[w].pc = "idle"
    /\ IF id \notin OrderIds
       THEN up' = [up EXCEPT ![w] = [IdleUp EXCEPT !.order_id = id,
                                                   !.result = "404"]]
       ELSE IF status \notin OrderStatus
       THEN up' = [up EXCEPT ![w] = [IdleUp EXCEPT !.result = "400"]]
       ELSE up' = [up EXCEPT ![w] = [pc |-> "loaded", entry |-> "api",
                       order_id |-> id, old_status |-> orders[id].status,
                       new_status |-> status, result |-> "-"]]
    /\ UNCHANGED <<now, orders, order_items, carts, cart_items, co, events, djangoVars, ca, analytics>>
    /\ UNCHANGED wsVars

\* PUT /orders/{order_id}/status, lines 212-249.
api_update_commit(w) ==
    /\ up[w].pc = "loaded"
    /\ up[w].entry = "api"
    /\ LET id == up[w].order_id
       IN  /\ orders' = [orders EXCEPT ![id] =
                  FlushOrder(@, up[w].old_status, up[w].new_status, now)]
           /\ events' = events \cup {[type |-> "order_status_change",
                                      order_id |-> id, source |-> "api"]}
    /\ up' = [up EXCEPT ![w] = [IdleUp EXCEPT !.result = "200"]]
    /\ UNCHANGED <<now, order_items, carts, cart_items, co, djangoVars, ca, analytics>>
    /\ UNCHANGED wsVars

(* ------------------------------ Django side --------------------------- *)
\* shopping_cart.views.add_to_cart: a new inventory line of quantity 1, or
\* one more of the line with the product's name.
add_to_cart(u, product) ==
    /\ LET idx == {k \in 1..Len(inventory[u]) : inventory[u][k].name = product}
       IN  IF idx = {}
           THEN inventory' = [inventory EXCEPT
                    ![u] = Append(@, [name |-> product, quantity |-> 1])]
           ELSE LET k == SetMin(idx)
                IN  /\ inventory[u][k].quantity < MaxQty
                    /\ inventory' = [inventory EXCEPT ![u][k].quantity = @ + 1]
    /\ UNCHANGED <<now, fastapiVars, events, transactions>>
    /\ UNCHANGED wsVars

\* The many-to-many relation Transaction.items after the loop of lines
\* 171-175: items.add of a food item that is already related adds nothing,
\* so the relation holds each food item of the inventory once.
TransactionItems(inv) == {inv[k].name : k \in 1..Len(inv)}

\* Transaction.get_item_summary: the number of related rows of one food
\* item, the quantity the transaction records for it.
get_item_summary(t, name) == IF name \in t.items THEN 1 ELSE 0

\* shopping_cart.views.update_Transaction_history: draws a reference code
\* (no lookup of existing codes), saves the transaction, relates the food
\* items of the inventory, notifies the pending station, clears the cart.
update_Transaction_history(u, ref_code) ==
    /\ Len(transactions) < MaxTransactions
    /\ transactions' = Append(transactions,
           [ref_code |-> ref_code,
            owner |-> u,
            status |-> PENDING,
            items |-> TransactionItems(inventory[u]),
            date_ordered |-> now,
            date_preparing |-> NULL,
            date_ready |-> NULL,
            date_complete |-> NULL,
            last_status_change |-> now])
    /\ events' = events \cup {[type |-> "new_order",
                               order_id |-> Len(transactions) + 1,
                               source |-> "django"]}
    /\ inventory' = [inventory EXCEPT ![u] = <<>>]
    /\ UNCHANGED <<now, fastapiVars>>
    /\ UNCHANGED wsVars

\* operations.views.update_order_status: any status string of the URL is
\* written; a missing transaction only shows "Order not found".
django_update_order_status(id, new_status) ==
    /\ id \in 1..Len(transactions)
    /\ LET old_status == transactions[id].status
           stamped == update_order_timing(
                          [transactions[id] EXCEPT !.status = new_status],
                          old_status, new_status, now)
       IN  /\ transactions' = [transactions EXCEPT
                  ![id] = [stamped EXCEPT !.last_status_change = now]]
           /\ events' = events \cup {[type |-> "order_status_change",
                                      order_id |-> id, source |-> "django"]}
    /\ UNCHANGED <<now, fastapiVars, inventory>>
    /\ UNCHANGED wsVars

(* ------------------------------ staff only ----------------------------- *)
\* The users whose is_staff flag is set.
StaffUsers == {2}

\* PUT /orders/{order_id}/status as a user sends it: the dependency
\* get_current_staff_user answers 403 to a user who is not staff, before
\* the handler runs.
put_order_status(w, u, id, status) ==
    IF u \in StaffUsers
    THEN api_update_load(w, id, status)
    ELSE /\ up[w].pc = "idle"
         /\ up' = [up EXCEPT ![w] = [IdleUp EXCEPT !.result = "403"]]
         /\ UNCHANGED <<now, orders, order_items, carts, cart_items, co, events, djangoVars, ca, analytics>>
         /\ UNCHANGED wsVars

\* operations.views.update_order_status as a user sends it: a user who is
\* not staff is redirected and nothing else happens.
operations_update_order_status(u, id, new_status) ==
    /\ u \in StaffUsers
    /\ django_update_order_status(id, new_status)

\* operations.views.api_update_order_status, POST api/orders/<id>/status/:
\* csrf_exempt, no login and no staff check; the request's user is never
\* looked at.  A status outside the four values is answered 400, a missing
\* order 404; otherwise the order is updated, stamped, saved and notified
\* as in update_order_status.
api_update_order_status(u, id, new_status) ==
    /\ new_status \in OrderStatus
    /\ django_update_order_status(id, new_status)

(* --------------------------- ConnectionManager ------------------------- *)
\* connection_info has no entry for the websocket.  An entry holds the
\* channel, the key "user_id" that subscribe_orders writes, and the
\* "user_info" dict given to connect (here: the user id inside it).
NoInfo == [channel |-> "-", user_id |-> NULL, user_info |-> NULL]
\* No broadcast pass is running.  A pass is broadcast_to_channel (pc
\* "iter") or _broadcast_to_user_orders (pc "scan" while it reads
\* connection_info, pc "notify" while it sends).
IdleBc == [pc |-> "idle", channel |-> "-", message |-> 0, snapshot |-> {},
           pending |-> {}, connections_to_remove |-> <<>>,
           attempts |-> [ws \in Sockets |-> 0],
           user_id |-> NULL, used |-> 0, error |-> "-", stalled |-> {}]

DiscardFromToggles(ac, ws) ==
    [c \in Channels |-> IF ws \in ac[c] THEN ac[c] \ {ws} ELSE ac[c] \cup {ws}]
\* ConnectionManager.disconnect: discard from every channel set, drop the
\* metadata when present.
DiscardFrom(ac, ws) == [c \in Channels |-> ac[c] \ {ws}]
DropInfoKeeps(ci, ws) == ci
\* disconnect, lines 52-54: the metadata of the websocket is deleted.
DropInfo(ci, ws) == [ci EXCEPT ![ws] = NoInfo]

\* websocket.send_text succeeds on a connected socket with a working
\* transport.
CanSend(ws) == client_state[ws] = "CONNECTED" /\ ~ broken[ws]

\* The ids 1..n in descending order.
RECURSIVE Descending(_)
Descending(n) == IF n = 0 THEN <<>> ELSE <<n>> \o Descending(n - 1)

\* OrderService.get_orders_by_status: the ids of the orders with a status,
\* oldest first (ids grow with date_ordered).
get_orders_by_status(os, status) ==
    SelectSeq([i \in 1..Len(os) |-> i], LAMBDA i : os[i].status = status)

\* The kitchen_update message: the pending, preparing and ready queues as
\* the store holds them.
KitchenUpdateMessage(os) ==
    [type |-> "kitchen_update",
     data |-> [pending_orders |-> get_orders_by_status(os, PENDING),
               preparing_orders |-> get_orders_by_status(os, PREPARING),
               ready_orders |-> get_orders_by_status(os, READY)]]

\* sum(xs) of a list of durations.
RECURSIVE SumSeq(_)
SumSeq(xs) == IF xs = <<>> THEN 0 ELSE Head(xs) + SumSeq(Tail(xs))

\* round() of the quotient n / d to an integer: to the nearest, a tie to
\* the even neighbour.
RoundHalfEven(n, d) ==
    LET q == n \div d
        r == n % d
    IN  IF 2 * r < d THEN q
        ELSE IF 2 * r > d THEN q + 1
        ELSE IF q % 2 = 0 THEN q ELSE q + 1

\* A number, and the exception of a division by zero.
Number(n) == [value |-> n]
ZeroDivisionError == [raised |-> "ZeroDivisionError"]

\* round(n / d, places) in units of 10^-places (scale = 10^places); the
\* division raises when d is 0.  The clock counts minutes.
Quotient(n, d, scale) ==
    IF d = 0 THEN ZeroDivisionError ELSE Number(RoundHalfEven(scale * n, d))

\* The rows of the completed orders.
CompletedOrders(os) == SelectSeq(os, LAMBDA o : o.status = COMPLETE)

\* get_operations_analytics, lines 122-142: the four lists of durations,
\* each over the completed orders that have the timestamps it needs.
times_to_preparing(done) ==
    LET sel == SelectSeq(done, LAMBDA o : o.date_preparing # NULL)
    IN  [k \in 1..Len(sel) |-> sel[k].date_preparing - sel[k].date_ordered]
times_to_ready(done) ==
    LET sel == SelectSeq(done, LAMBDA o : o.date_ready # NULL /\ o.date_preparing # NULL)
    IN  [k \in 1..Len(sel) |-> sel[k].date_ready - sel[k].date_preparing]
times_to_complete(done) ==
    LET sel == SelectSeq(done, LAMBDA o : o.date_complete # NULL /\ o.date_ready # NULL)
    IN  [k \in 1..Len(sel) |-> sel[k].date_complete - sel[k].date_ready]
total_times(done) ==
    LET sel == SelectSeq(done, LAMBDA o : o.date_complete # NULL)
    IN  [k \in 1..Len(sel) |-> sel[k].date_complete - sel[k].date_ordered]

average_unguarded(xs) == Quotient(SumSeq(xs), Len(xs), 100)
\* round(sum(xs) / len(xs), 2) if xs else 0, in hundredths of a minute.
average_or_zero(xs) ==
    IF xs # <<>> THEN Quotient(SumSeq(xs), Len(xs), 100) ELSE Number(0)

\* GET /dashboard/analytics, lines 111-149: the averages.
get_operations_analytics(os) ==
    LET done == CompletedOrders(os)
    IN  IF Len(done) > 0
        THEN [avg_time_to_preparing |-> average_or_zero(times_to_preparing(done)),
              avg_time_to_ready |-> average_or_zero(times_to_ready(done)),
              avg_time_to_complete |-> average_or_zero(times_to_complete(done)),
              avg_total_time |-> average_or_zero(total_times(done))]
        ELSE [avg_time_to_preparing |-> Number(0), avg_time_to_ready |-> Number(0),
              avg_time_to_complete |-> Number(0), avg_total_time |-> Number(0)]

\* OrderService._get_timing_analytics: the total time of the completed
\* orders that have date_complete, over the number of completed orders, in
\* tenths of a minute.
get_timing_analytics(os) ==
    LET done == CompletedOrders(os)
    IN  IF Len(done) = 0
        THEN [avg_total_time |-> Number(0)]
        ELSE [avg_total_time |-> Quotient(SumSeq(total_times(done)), Len(done), 10)]

\* OrderService._get_default_analytics.
get_default_analytics ==
    [total_orders |-> 0,
     status_counts |-> [st \in OrderStatus |-> 0],
     timing_analytics |-> [avg_total_time |-> Number(0)]]

\* OrderService.get_order_analytics: the counts and the timing analytics;
\* the defaults when the computation raises.
get_order_analytics(os) ==
    IF get_timing_analytics(os).avg_total_time = ZeroDivisionError
    THEN get_default_analytics
    ELSE [total_orders |-> Len(os),
          status_counts |-> [st \in OrderStatus |->
                                Len(get_orders_by_status(os, st))],
          timing_analytics |-> get_timing_analytics(os)]

\* GET /dashboard/analytics answered from the store as it is.
dashboard_analytics ==
    /\ analytics' = get_operations_analytics(orders)
    /\ UNCHANGED <<now, orders, order_items, carts, cart_items, co, up, events, djangoVars, ca>>
    /\ UNCHANGED wsVars

\* OrderService.get_orders / get_user_orders: newest first.
get_orders(os) == Descending(Len(os))
get_user_orders(os, u) == SelectSeq(Descending(Len(os)), LAMBDA i : os[i].user_id = u)

InitialDataStale(channel) ==
    IF channel = "kitchen_display"
    THEN <<KitchenUpdateMessage(<<>>)>>
    ELSE IF channel = "admin_dashboard"
    THEN <<[type |-> "dashboard_analytics", data |-> get_order_analytics(<<>>)],
           [type |-> "all_orders_update", data |-> [orders |-> get_orders(<<>>)]]>>
    ELSE <<>>
\* The messages _send_initial_data sends on a channel: the kitchen state, or
\* the dashboard analytics followed by the list of all orders.
InitialData(channel) ==
    IF channel = "kitchen_display"
    THEN <<KitchenUpdateMessage(orders)>>
    ELSE IF channel = "admin_dashboard"
    THEN <<[type |-> "dashboard_analytics", data |-> get_order_analytics(orders)],
           [type |-> "all_orders_update", data |-> [orders |-> get_orders(orders)]]>>
    ELSE <<>>

\* ConnectionManager.connect: accept, add to the channel set, store the
\* metadata (user_info under the key "user_info"), send the initial data of
\* the channel.
connect_user_info(ws, channel, user_info) ==
    /\ client_state[ws] = "CONNECTING"
    /\ client_state' = [client_state EXCEPT ![ws] = "CONNECTED"]
    /\ active_connections' = [active_connections EXCEPT ![channel] = @ \cup {ws}]
    /\ connection_info' = [connection_info EXCEPT
           ![ws] = [channel |-> channel, user_id |-> NULL,
                    user_info |-> user_info]]
    /\ received' = [received EXCEPT ![ws] = @ \o InitialData(channel)]
    /\ UNCHANGED <<broken, bc, published, pub>>
    /\ UNCHANGED <<now, fastapiVars, events, djangoVars, joining>>

\* connect without user_info, as the routes of main.py call it.
connect(ws, channel) == connect_user_info(ws, channel, NULL)

\* ConnectionManager.connect, lines 27-38, as a thread other than the
\* server's event loop sees it: the websocket is accepted, added to the
\* channel set and given its metadata; the initial data are not sent yet.
connect_register(ws, channel) ==
    /\ client_state[ws] = "CONNECTING"
    /\ client_state' = [client_state EXCEPT ![ws] = "CONNECTED"]
    /\ active_connections' = [active_connections EXCEPT ![channel] = @ \cup {ws}]
    /\ connection_info' = [connection_info EXCEPT
           ![ws] = [channel |-> channel, user_id |-> NULL, user_info |-> NULL]]
    /\ joining' = joining \cup {<<ws, channel>>}
    /\ UNCHANGED <<broken, received, bc, published, pub>>
    /\ UNCHANGED <<now, fastapiVars, events, djangoVars>>

\* ConnectionManager.connect, line 43: _send_initial_data reads the store
\* and sends through send_json_message, which disconnects a websocket it
\* cannot send to.
send_initial_data(ws, channel) ==
    /\ <<ws, channel>> \in joining
    /\ joining' = joining \ {<<ws, channel>>}
    /\ IF CanSend(ws) \/ InitialData(channel) = <<>>
       THEN /\ received' = [received EXCEPT ![ws] = @ \o InitialData(channel)]
            /\ UNCHANGED <<active_connections, connection_info>>
       ELSE /\ active_connections' = DiscardFrom(active_connections, ws)
            /\ connection_info' = DropInfo(connection_info, ws)
            /\ UNCHANGED received
    /\ UNCHANGED <<client_state, broken, bc, published, pub>>
    /\ UNCHANGED <<now, fastapiVars, events, djangoVars>>

\* The peer closes the connection.
client_close(ws) ==
    /\ client_state[ws] = "CONNECTED"
    /\ client_state' = [client_state EXCEPT ![ws] = "DISCONNECTED"]
    /\ UNCHANGED <<active_connections, connection_info, broken, received, bc, published, pub>>
    /\ UNCHANGED <<now, fastapiVars, events, djangoVars, joining>>

\* The transport of a connected socket fails: its next send raises.
transport_fails(ws) ==
    /\ client_state[ws] = "CONNECTED"
    /\ ~ broken[ws]
    /\ broken' = [broken EXCEPT ![ws] = TRUE]
    /\ UNCHANGED <<active_connections, connection_info, client_state, received, bc, published, pub>>
    /\ UNCHANGED <<now, fastapiVars, events, djangoVars, joining>>

\* The endpoint's receive loop ends with WebSocketDisconnect and calls
\* ConnectionManager.disconnect.
disconnect(ws) ==
    /\ client_state[ws] = "DISCONNECTED"
    /\ active_connections' = DiscardFrom(active_connections, ws)
    /\ connection_info' = DropInfo(connection_info, ws)
    /\ UNCHANGED <<client_state, broken, received, bc, published, pub>>
    /\ UNCHANGED <<now, fastapiVars, events, djangoVars, joining>>

\* broadcast_to_channel, lines 82-88: an unknown channel returns at once;
\* otherwise the pass iterates over a copy of the channel set.
broadcast_begin(channel) ==
    /\ bc.pc = "idle"
    /\ published < MaxMessages
    /\ published' = published + 1
    /\ IF channel \notin Channels
       THEN bc' = IdleBc
       ELSE bc' = [IdleBc EXCEPT !.pc = "iter",
                                 !.channel = channel,
                                 !.message = published + 1,
                                 !.snapshot = active_connections[channel],
                                 !.pending = active_connections[channel]]
    /\ UNCHANGED <<active_connections, connection_info, client_state, broken, received, pub>>
    /\ UNCHANGED <<now, fastapiVars, events, djangoVars, joining>>

AfterFailureAborts(b, ws) ==
    [b EXCEPT !.pending = {},
              !.attempts[ws] = @ + 1,
              !.connections_to_remove = Append(@, ws)]
\* The pass after a send to ws failed or ws was found not connected: ws is
\* collected and the loop goes on with the next member.
AfterFailure(b, ws) ==
    [b EXCEPT !.pending = @ \ {ws},
              !.attempts[ws] = @ + 1,
              !.connections_to_remove = Append(@, ws)]

\* broadcast_to_channel, lines 88-98: one iteration of the loop.
broadcast_send(ws) ==
    /\ bc.pc = "iter"
    /\ ws \in bc.pending
    /\ IF CanSend(ws)
       THEN /\ received' = [received EXCEPT
                   ![ws] = Append(@, [type |-> "event", id |-> bc.message])]
            /\ bc' = [bc EXCEPT !.pending = @ \ {ws}, !.attempts[ws] = @ + 1]
       ELSE /\ bc' = AfterFailure(bc, ws)
            /\ UNCHANGED received
    /\ UNCHANGED <<active_connections, connection_info, client_state, broken, published, pub>>
    /\ UNCHANGED <<now, fastapiVars, events, djangoVars, joining>>

\* broadcast_to_channel, line 95: await websocket.send_text has no
\* timeout.  A peer that stops reading while its connection stays open
\* fills the transport's buffers, and the await does not return: the loop
\* stays at this member.
broadcast_send_blocks(ws) ==
    /\ bc.pc = "iter"
    /\ ws \in bc.pending
    /\ CanSend(ws)
    /\ bc' = [bc EXCEPT !.pc = "blocked", !.stalled = {ws}]
    /\ UNCHANGED <<active_connections, connection_info, client_state, broken,
                   received, published, pub>>
    /\ UNCHANGED <<now, fastapiVars, events, djangoVars, joining>>

RECURSIVE DisconnectAll(_, _)
DisconnectAll(ac, ws_seq) ==
    IF ws_seq = <<>> THEN ac
    ELSE DisconnectAll(DiscardFrom(ac, Head(ws_seq)), Tail(ws_seq))

RECURSIVE DropInfoAll(_, _)
DropInfoAll(ci, ws_seq) ==
    IF ws_seq = <<>> THEN ci
    ELSE DropInfoAll(DropInfo(ci, Head(ws_seq)), Tail(ws_seq))

\* broadcast_to_channel, lines 100-102: after the loop, disconnect every
\* collected connection.
broadcast_cleanup ==
    /\ bc.pc = "iter"
    /\ bc.pending = {}
    /\ active_connections' = DisconnectAll(active_connections, bc.connections_to_remove)
    /\ connection_info' = DropInfoAll(connection_info, bc.connections_to_remove)
    /\ bc' = [bc EXCEPT !.pc = "idle"]
    /\ UNCHANGED <<client_state, broken, received, published, pub>>
    /\ UNCHANGED <<now, fastapiVars, events, djangoVars, joining>>

(* ---------------- WebSocketService._broadcast_to_user_orders ----------- *)
\* The keys of the dict connection_info.
InfoKeys(ci) == {ws \in Sockets : ci[ws] # NoInfo}

\* The event message of a pass.  The data of the message name the order;
\* here the message carries the owner of that order.
UserEventMessage(b) ==
    [type |-> "order_status_change", id |-> b.message, user_id |-> b.user_id]

\* Lines 155-157: the pass starts to iterate connection_info.items(), the
\* dict itself.  The pass runs under asyncio.run on the caller's thread,
\* never on the server's event loop; connects and disconnects go on while
\* it reads.
broadcast_to_user_orders_begin(user_id) ==
    /\ bc.pc = "idle"
    /\ published < MaxMessages
    /\ published' = published + 1
    /\ bc' = [IdleBc EXCEPT !.pc = "scan",
                            !.channel = "order_updates",
                            !.message = published + 1,
                            !.user_id = user_id,
                            !.used = Cardinality(InfoKeys(connection_info)),
                            !.pending = InfoKeys(connection_info)]
    /\ UNCHANGED <<active_connections, connection_info, client_state, broken, received, pub>>
    /\ UNCHANGED <<now, fastapiVars, events, djangoVars, joining>>

\* Lines 158-159: the test of one entry (info.get("user_id") is the key
\* written by subscribe_orders).
MatchesUser(info, user_id) ==
    info.channel = "order_updates" /\ info.user_id = user_id

\* Lines 157-160: one step of the dict iterator.  A dict whose size differs
\* from the size at the start of the iteration raises RuntimeError, which
\* nothing in the pass catches; otherwise the next entry still present is
\* examined, or the loop ends and the sends begin.
broadcast_to_user_orders_scan ==
    /\ bc.pc = "scan"
    /\ LET keys == InfoKeys(connection_info)
           left == bc.pending \cap keys
       IN  IF Cardinality(keys) # bc.used
           THEN bc' = [bc EXCEPT !.pc = "idle", !.pending = {},
                                 !.error = "RuntimeError"]
           ELSE IF left = {}
           THEN bc' = [bc EXCEPT !.pc = IF bc.snapshot = {} THEN "idle" ELSE "notify",
                                 !.pending = bc.snapshot]
           ELSE \E ws \in left :
                   bc' = [bc EXCEPT
                      !.pending = @ \ {ws},
                      !.snapshot = IF MatchesUser(connection_info[ws], bc.user_id)
                                   THEN @ \cup {ws} ELSE @]
    /\ UNCHANGED <<active_connections, connection_info, client_state, broken,
                   received, published, pub>>
    /\ UNCHANGED <<now, fastapiVars, events, djangoVars, joining>>

\* Lines 163-168 with ConnectionManager.send_json_message (65-78): one
\* iteration of the sending loop.  A connection that is not connected, or
\* whose send raises, is disconnected by send_json_message at once.
broadcast_to_user_orders_send(ws) ==
    /\ bc.pc = "notify"
    /\ ws \in bc.pending
    /\ IF CanSend(ws)
       THEN /\ received' = [received EXCEPT ![ws] = Append(@, UserEventMessage(bc))]
            /\ UNCHANGED <<active_connections, connection_info>>
       ELSE /\ active_connections' = DiscardFrom(active_connections, ws)
            /\ connection_info' = DropInfo(connection_info, ws)
            /\ UNCHANGED received
    /\ bc' = [bc EXCEPT !.pending = @ \ {ws},
                        !.attempts[ws] = @ + 1,
                        !.pc = IF bc.pending = {ws} THEN "idle" ELSE "notify"]
    /\ UNCHANGED <<client_state, broken, published, pub>>
    /\ UNCHANGED <<now, fastapiVars, events, djangoVars, joining>>

(* ------------------------------ the broadcaster ------------------------ *)
NoEvent == [type |-> "-", order_id |-> 0, source |-> "-"]
IdlePub == [pc |-> "idle", event |-> NoEvent, todo |-> <<>>, log |-> <<>>,
            result |-> "-", taken |-> {}]

PublishesToUser(e) ==
    IF e.source = "service"
    THEN <<"kitchen_display", "admin_dashboard", "user_orders", "kitchen_update">>
    ELSE IF e.source = "fastapi"
    THEN <<"kitchen_display", "admin_dashboard", "user_orders", "kitchen_update">>
    ELSE <<"kitchen_display", "admin_dashboard">>
\* The publishes of one event, in the order of the code.
\* OrderService.update_order_status runs WebSocketService
\* .broadcast_order_status_change; OrderService.create_order runs
\* WebSocketService.broadcast_new_order; PUT /orders/{id}/status schedules
\* broadcast_status_change_background.
Publishes(e) ==
    IF e.source = "service"
    THEN <<"kitchen_display", "admin_dashboard", "user_orders", "kitchen_update">>
    ELSE IF e.source = "fastapi"
    THEN <<"kitchen_display", "admin_dashboard", "kitchen_update">>
    ELSE <<"kitchen_display", "admin_dashboard">>

\* The channel a publish goes to.
ChannelOfPublish(p) ==
    IF p = "kitchen_update" THEN "kitchen_display"
    ELSE IF p = "user_orders" THEN "order_updates"
    ELSE p

\* The message of a publish.  The data of an event message (ref_code,
\* old_status, new_status, timestamp) tell the events of one order apart;
\* here the message carries the entry point that made the change.
MessageOfPublish(p, e) ==
    IF p = "kitchen_update" THEN KitchenUpdateMessage(orders)
    ELSE [type |-> e.type, order_id |-> e.order_id, source |-> e.source]

\* WebSocketService._broadcast_to_user_orders, lines 157-160: the
\* connections whose metadata has channel order_updates and the user's id.
connections_to_notify(user_id) ==
    {ws \in Sockets : /\ connection_info[ws].channel = "order_updates"
                      /\ connection_info[ws].user_id = user_id}

\* The connections a publish addresses.
TargetsOfPublish(p, e) ==
    IF p = "user_orders"
    THEN connections_to_notify(orders[e.order_id].user_id)
    ELSE active_connections[ChannelOfPublish(p)]

\* The events this ConnectionManager's process publishes.
Publishable(e) == e.source \in {"service", "fastapi", "api"}

\* The broadcaster takes an event handed to it: asyncio.run of
\* _broadcast_async on the two OrderService paths, the background thread of
\* broadcast_status_change_background on the API path.
broadcast_start(e) ==
    /\ pub.pc = "idle"
    /\ e \in events \ pub.taken
    /\ Publishable(e)
    /\ Cardinality(pub.taken) < MaxMessages
    /\ pub' = [pc |-> "run", event |-> e, todo |-> Publishes(e), log |-> <<>>,
               result |-> "-", taken |-> pub.taken \cup {e}]
    /\ UNCHANGED <<active_connections, connection_info, client_state, broken,
                   received, bc, published>>
    /\ UNCHANGED <<now, fastapiVars, events, djangoVars, joining>>

\* One publish run to its end: every addressed connection that can be sent
\* to gets the message, every other one is disconnected.
Publish(p, to) ==
    LET e == pub.event
        msg == MessageOfPublish(p, e)
        ok == {ws \in to : CanSend(ws)}
        dead == to \ ok
    IN  /\ received' = [ws \in Sockets |->
                IF ws \in ok THEN Append(received[ws], msg) ELSE received[ws]]
        /\ active_connections' = [c \in Channels |-> active_connections[c] \ dead]
        /\ connection_info' = [ws \in Sockets |->
                IF ws \in dead THEN NoInfo ELSE connection_info[ws]]
        /\ pub' = [pub EXCEPT
                !.todo = Tail(@),
                !.log = Append(@, [channel |-> ChannelOfPublish(p),
                                   type |-> msg.type]),
                !.pc = IF Len(pub.todo) = 1 THEN "idle" ELSE "run",
                !.result = IF Len(pub.todo) = 1 THEN "done" ELSE "-"]

\* ConnectionManager.broadcast_json_to_channel as the broadcaster calls it.
broadcast_json_to_channel ==
    /\ pub.pc = "run"
    /\ Head(pub.todo) # "user_orders"
    /\ Publish(Head(pub.todo), TargetsOfPublish(Head(pub.todo), pub.event))
    /\ UNCHANGED <<client_state, broken, bc, published>>
    /\ UNCHANGED <<now, fastapiVars, events, djangoVars, joining>>

\* WebSocketService._broadcast_to_user_orders.
broadcast_to_user_orders ==
    /\ pub.pc = "run"
    /\ Head(pub.todo) = "user_orders"
    /\ Publish("user_orders", TargetsOfPublish("user_orders", pub.event))
    /\ UNCHANGED <<client_state, broken, bc, published>>
    /\ UNCHANGED <<now, fastapiVars, events, djangoVars, joining>>

\* asyncio.run(_broadcast_async(coro)): _broadcast_async only creates the
\* task and returns, and asyncio.run cancels the tasks that are still
\* pending when its main coroutine has returned.  The broadcast runs up to
\* the first send that suspends and ends there: some of the connections of
\* the publish in progress got the message, nothing is cleaned up and the
\* publishes after it do not happen.  A broadcast whose sends never suspend
\* runs to its end.
broadcast_cancelled ==
    /\ pub.pc = "run"
    /\ pub.event.source \in {"service", "fastapi"}
    /\ LET p == Head(pub.todo)
           e == pub.event
           msg == MessageOfPublish(p, e)
           ok == {ws \in TargetsOfPublish(p, e) : CanSend(ws)}
       IN  /\ ok # {}
           /\ \E sent \in SUBSET ok :
                 /\ received' = [ws \in Sockets |->
                        IF ws \in sent THEN Append(received[ws], msg)
                        ELSE received[ws]]
                 /\ pub' = [pub EXCEPT
                        !.log = Append(@, [channel |-> ChannelOfPublish(p),
                                           type |-> msg.type]),
                        !.pc = "idle",
                        !.result = "cancelled"]
    /\ UNCHANGED <<active_connections, connection_info, client_state, broken,
                   bc, published>>
    /\ UNCHANGED <<now, fastapiVars, events, djangoVars, joining>>

\* order_updates_websocket, message "subscribe_orders": the user id is
\* written into the connection's metadata and the user's orders are sent.
\* Without metadata (a broadcast removed the connection) the handler
\* raises and the server closes the socket.
subscribe_orders(ws, target_user_id) ==
    /\ client_state[ws] = "CONNECTED"
    /\ IF connection_info[ws] = NoInfo
       THEN /\ client_state' = [client_state EXCEPT ![ws] = "DISCONNECTED"]
            /\ UNCHANGED <<active_connections, connection_info, received>>
       ELSE /\ connection_info[ws].channel = "order_updates"
            /\ IF CanSend(ws)
               THEN /\ received' = [received EXCEPT ![ws] = Append(@,
                          [type |-> "user_orders_update",
                           data |-> [orders |-> get_user_orders(orders, target_user_id)]])]
                    /\ connection_info' = [connection_info EXCEPT
                          ![ws].user_id = target_user_id]
                    /\ UNCHANGED active_connections
               ELSE /\ active_connections' = DiscardFrom(active_connections, ws)
                    /\ connection_info' = DropInfo(connection_info, ws)
                    /\ UNCHANGED received
            /\ UNCHANGED client_state
    /\ UNCHANGED <<broken, bc, published, pub>>
    /\ UNCHANGED <<now, fastapiVars, events, djangoVars, joining>>

(* ----------------------------- specifications -------------------------- *)
Init ==
    /\ now = 1
    /\ orders = <<>>
    /\ order_items = <<>>
    /\ carts = {}
    /\ cart_items = [u \in ApiUsers |-> <<>>]
    /\ co = [w \in Workers |-> IdleCo]
    /\ up = [w \in Workers |-> IdleUp]
    /\ events = {}
    /\ transactions = <<>>
    /\ inventory = [u \in SiteUsers |-> <<>>]
    /\ active_connections = [c \in Channels |-> {}]
    /\ connection_info = [ws \in Sockets |-> NoInfo]
    /\ client_state = [ws \in Sockets |-> "CONNECTING"]
    /\ broken = [ws \in Sockets |-> FALSE]
    /\ received = [ws \in Sockets |-> <<>>]
    /\ bc = IdleBc
    /\ published = 0
    /\ pub = IdlePub
    /\ ca = [w \in Workers |-> IdleCa]
    /\ analytics = NoAnalytics
    /\ joining = {}

NextCheckout ==
    \/ \E u \in ApiUsers, f \in MenuItems, q \in 1..MaxQty : add_item_to_cart(u, f, q)
    \/ \E w \in Workers, u \in ApiUsers : create_order_begin(w, u)
    \/ \E w \in Workers : ensure_unique_ref_code(w)
    \/ \E w \in Workers : create_order_display_id(w)
    \/ \E w \in Workers : create_order_insert(w)
    \/ \E w \in Workers : create_order_items(w)
    \/ \E w \in Workers : create_order_items_fail(w)

SpecCheckout == Init /\ [][NextCheckout]_vars

\* The specifications that follow a single order let the generator draw
\* this code for it.
FirstRefCode == SetMin(RefCodes)

\* The lifecycle specification follows one order through its statuses.
\* Status updates address that order or an id that is not in the store.
TrackedOrders == {1}
UpdateIds == {1, 2}

NextLifecycle ==
    \/ Tick
    \/ \E u \in ApiUsers, f \in MenuItems :
          Len(orders) + 1 \in TrackedOrders /\ add_item_to_cart(u, f, MaxQty)
    \/ \E u \in ApiUsers : Len(orders) + 1 \in TrackedOrders /\ create_order_begin(1, u)
    \/ ensure_unique_ref_code(1) /\ co'[1].ref_code = FirstRefCode
    \/ create_order_display_id(1)
    \/ create_order_insert(1)
    \/ create_order_items(1)
    \/ \E id \in UpdateIds, s \in OrderStatus : service_update_load(1, id, s)
    \/ service_update_commit(1)
    \/ \E id \in UpdateIds, s \in OrderStatus \cup {INVALID_STATUS} :
          api_update_load(2, id, s)
    \/ api_update_commit(2)

SpecLifecycle == Init /\ [][NextLifecycle]_vars

NextDjango ==
    \/ \E u \in SiteUsers, f \in FoodItems : add_to_cart(u, f)
    \/ \E u \in SiteUsers, c \in RefCodes : update_Transaction_history(u, c)
    \/ \E id \in TrackedOrders, s \in OrderStatus \cup {INVALID_STATUS} :
          django_update_order_status(id, s)

SpecDjango == Init /\ [][NextDjango]_vars

\* The channels viewers join in the broadcast specification.
ViewerChannels == {"kitchen_display", "order_updates"}

\* The websockets whose transport can fail in the broadcast specification.
FlakySockets == {1}

NextBroadcast ==
    \/ \E ws \in Sockets, c \in ViewerChannels : connect(ws, c)
    \/ \E ws \in Sockets : client_close(ws)
    \/ \E ws \in FlakySockets : transport_fails(ws)
    \/ \E ws \in Sockets : disconnect(ws)
    \/ \E c \in ViewerChannels \cup {"unknown"} : broadcast_begin(c)
    \/ \E ws \in Sockets : broadcast_send(ws)
    \/ broadcast_cleanup

SpecBroadcast == Init /\ [][NextBroadcast]_vars

\* The endpoint each websocket of the publishing specification connects to:
\* kitchen_display_websocket, admin_dashboard_websocket,
\* order_updates_websocket.
Endpoint(ws) ==
    CASE ws = 1 -> "kitchen_display"
      [] ws = 2 -> "admin_dashboard"
      [] OTHER -> "order_updates"

\* The statuses the kitchen asks for through OrderService and through the
\* API in the publishing specification.
ServiceRequests == {PREPARING}
ApiRequests == {READY}

\* No status change of this entry point has been handed to the broadcaster.
NotYetChanged(source) == ~ \E e \in events : e.source = source

\* Viewers connect and subscribe, one order is created and moved through
\* its statuses once by each entry point, viewers drop, and the broadcaster
\* publishes the events.
NextPublish ==
    \/ \E u \in ApiUsers, f \in MenuItems :
          orders = <<>> /\ add_item_to_cart(u, f, MaxQty)
    \/ \E u \in ApiUsers : Len(orders) + 1 \in TrackedOrders /\ create_order_begin(1, u)
    \/ ensure_unique_ref_code(1) /\ co'[1].ref_code = FirstRefCode
    \/ create_order_display_id(1)
    \/ create_order_insert(1)
    \/ create_order_items(1)
    \/ \E id \in TrackedOrders, s \in ServiceRequests :
          NotYetChanged("service") /\ service_update_load(1, id, s)
    \/ service_update_commit(1)
    \/ \E id \in TrackedOrders, s \in ApiRequests :
          NotYetChanged("api") /\ api_update_load(1, id, s)
    \/ api_update_commit(1)
    \/ \E ws \in Sockets : orders = <<>> /\ connect(ws, Endpoint(ws))
    \/ \E ws \in Sockets : client_close(ws)
    \/ \E ws \in Sockets, u \in Users :
          /\ Endpoint(ws) = "order_updates"
          /\ connection_info[ws].user_id = NULL
          /\ subscribe_orders(ws, u)
    \/ \E e \in events : broadcast_start(e)
    \/ broadcast_json_to_channel
    \/ broadcast_to_user_orders
    \/ broadcast_cancelled

SpecPublish == Init /\ [][NextPublish]_vars

\* The publishing specification with its scheduling: an event handed to
\* the broadcaster is taken, and a broadcast that has been started takes
\* each of its steps once it can.
SpecDeliver ==
    /\ Init
    /\ [][NextPublish]_vars
    /\ WF_vars(\E e \in events : broadcast_start(e))
    /\ WF_vars(broadcast_json_to_channel)
    /\ WF_vars(broadcast_to_user_orders)

\* Viewers join any channel while one order is created and moved through
\* its statuses.
NextConnect ==
    \/ \E u \in ApiUsers, f \in MenuItems :
          orders = <<>> /\ add_item_to_cart(u, f, MaxQty)
    \/ \E u \in ApiUsers : Len(orders) + 1 \in TrackedOrders /\ create_order_begin(1, u)
    \/ ensure_unique_ref_code(1) /\ co'[1].ref_code = FirstRefCode
    \/ create_order_display_id(1)
    \/ create_order_insert(1)
    \/ create_order_items(1)
    \/ \E id \in TrackedOrders, s \in OrderStatus : service_update_load(1, id, s)
    \/ service_update_commit(1)
    \/ \E ws \in Sockets, c \in Channels : connect(ws, c)

SpecConnect == Init /\ [][NextConnect]_vars

\* Orders are created until the display ids run out, and are moved through
\* their statuses by the service.
NextRecycle ==
    \/ \E u \in ApiUsers, f \in MenuItems : add_item_to_cart(u, f, MaxQty)
    \/ \E u \in ApiUsers : create_order_begin(1, u)
    \/ ensure_unique_ref_code(1)
    \/ create_order_display_id(1)
    \/ create_order_insert(1)
    \/ create_order_items(1)
    \/ \E id \in 1..MaxDisplayId, s \in OrderStatus : service_update_load(2, id, s)
    \/ service_update_commit(2)

SpecRecycle == Init /\ [][NextRecycle]_vars

\* This entry point has not changed the status of this order yet.
NotYetChangedBy(source, id) ==
    ~ \E e \in events : e.source = source /\ e.order_id = id

\* Orders are created one after the other, the generator drawing the free
\* codes in order, and each entry point moves each of the first two orders
\* once, to any status.
NextFrame ==
    \/ \E u \in ApiUsers, f \in MenuItems : add_item_to_cart(u, f, MaxQty)
    \/ \E u \in ApiUsers : create_order_begin(1, u)
    \/ /\ ensure_unique_ref_code(1)
       /\ co'[1].ref_code = SetMin(RefCodes \ RefCodesOf(orders))
    \/ create_order_display_id(1)
    \/ create_order_insert(1)
    \/ create_order_items(1)
    \/ \E id \in UpdateIds, s \in OrderStatus :
          NotYetChangedBy("service", id) /\ service_update_load(2, id, s)
    \/ service_update_commit(2)
    \/ \E id \in UpdateIds, s \in OrderStatus :
          NotYetChangedBy("api", id) /\ api_update_load(2, id, s)
    \/ api_update_commit(2)

SpecFrame == Init /\ [][NextFrame]_vars

\* The order tables the allocator is applied to: any table the uniqueness
\* constraints of the store admit, whatever display numbers its rows hold.
StoredOrders ==
    {os \in UNION {[1..n -> [display_id : 1..MaxDisplayId,
                             ref_code : RefCodes,
                             user_id : ApiUsers,
                             customer_name : ApiUsers,
                             status : {PENDING, COMPLETE},
                             date_ordered : {1},
                             date_preparing : {NULL},
                             date_ready : {NULL},
                             date_complete : {NULL},
                             last_status_change : {1}]] : n \in 0..MaxDisplayId} :
        \A i, j \in 1..Len(os) :
            i # j => /\ os[i].display_id # os[j].display_id
                     /\ os[i].ref_code # os[j].ref_code}

\* The store holds any such table when the service starts.
InitAllocator ==
    /\ now = 1
    /\ orders \in StoredOrders
    /\ order_items = <<>>
    /\ carts = {}
    /\ cart_items = [u \in ApiUsers |-> <<>>]
    /\ co = [w \in Workers |-> IdleCo]
    /\ up = [w \in Workers |-> IdleUp]
    /\ events = {}
    /\ transactions = <<>>
    /\ inventory = [u \in SiteUsers |-> <<>>]
    /\ active_connections = [c \in Channels |-> {}]
    /\ connection_info = [ws \in Sockets |-> NoInfo]
    /\ client_state = [ws \in Sockets |-> "CONNECTING"]
    /\ broken = [ws \in Sockets |-> FALSE]
    /\ received = [ws \in Sockets |-> <<>>]
    /\ bc = IdleBc
    /\ published = 0
    /\ pub = IdlePub
    /\ ca = [w \in Workers |-> IdleCa]
    /\ analytics = NoAnalytics
    /\ joining = {}

\* One worker checks out against the table it found.
NextAllocator ==
    \/ \E u \in ApiUsers, f \in MenuItems :
          co[1].pc = "idle" /\ co[1].result = "-" /\ add_item_to_cart(u, f, MaxQty)
    \/ \E u \in ApiUsers : co[1].result = "-" /\ create_order_begin(1, u)
    \/ ensure_unique_ref_code(1)
    \/ create_order_display_id(1)
    \/ create_order_insert(1)
    \/ create_order_items(1)

SpecAllocator == InitAllocator /\ [][NextAllocator]_vars

\* The quantities a client puts into PUT /cart/items/{item_id}: the schema
\* takes any integer.
QuantityInputs == 0..MaxQty

\* One user fills the cart from two requests at a time, changes
\* quantities, and checks out once.
NextCart ==
    \/ \E w \in Workers, u \in ApiUsers, f \in MenuItems, q \in 1..MaxQty :
          orders = <<>> /\ add_item_query(w, u, f, q)
    \/ \E w \in Workers : add_item_commit(w)
    \/ \E u \in ApiUsers, q \in QuantityInputs : \E k \in 1..Len(cart_items[u]) :
          orders = <<>> /\ update_cart_item(u, k, q)
    \/ \E u \in ApiUsers : \E k \in 1..Len(cart_items[u]) :
          orders = <<>> /\ increase_item_quantity(u, k)
    \/ \E u \in ApiUsers : \E k \in 1..Len(cart_items[u]) :
          orders = <<>> /\ decrease_item_quantity(u, k)
    \/ \E u \in ApiUsers : Len(orders) + 1 \in TrackedOrders /\ create_order_begin(1, u)
    \/ ensure_unique_ref_code(1) /\ co'[1].ref_code = FirstRefCode
    \/ create_order_display_id(1)
    \/ create_order_insert(1)
    \/ create_order_items(1)

SpecCart == Init /\ [][NextCart]_vars

\* Staff and customers ask for status changes of an order of either store
\* through every entry point that takes a user's request.
NextStaff ==
    \/ \E u \in SiteUsers, f \in MenuItems : transactions = <<>> /\ add_to_cart(u, f)
    \/ \E u \in SiteUsers :
          transactions = <<>> /\ update_Transaction_history(u, FirstRefCode)
    \/ \E u \in Users, id \in TrackedOrders, s \in OrderStatus \cup {INVALID_STATUS} :
          api_update_order_status(u, id, s)
    \/ \E u \in Users, id \in TrackedOrders, s \in OrderStatus \cup {INVALID_STATUS} :
          operations_update_order_status(u, id, s)
    \/ \E u \in ApiUsers, f \in MenuItems :
          orders = <<>> /\ add_item_to_cart(u, f, MaxQty)
    \/ \E u \in ApiUsers : Len(orders) + 1 \in TrackedOrders /\ create_order_begin(1, u)
    \/ ensure_unique_ref_code(1) /\ co'[1].ref_code = FirstRefCode
    \/ create_order_display_id(1)
    \/ create_order_insert(1)
    \/ create_order_items(1)
    \/ \E u \in Users, id \in UpdateIds, s \in OrderStatus \cup {INVALID_STATUS} :
          put_order_status(2, u, id, s)
    \/ api_update_commit(2)

SpecStaff == Init /\ [][NextStaff]_vars

\* The sizes of the order tables of the analytics specification.
AnalyticsSizes == {0, 1, 2}

\* The order tables the analytics are computed from: every row is one the
\* status updates can leave behind, a status with any of the transition
\* timestamps set or not, none before date_ordered.
AnalyticsOrders ==
    UNION {[1..n -> [display_id : {1},
                     ref_code : {FirstRefCode},
                     user_id : ApiUsers,
                     customer_name : ApiUsers,
                     status : {PENDING, COMPLETE},
                     date_ordered : {1},
                     date_preparing : {NULL} \cup (1..MaxTime),
                     date_ready : {NULL} \cup (1..MaxTime),
                     date_complete : {NULL} \cup (1..MaxTime),
                     last_status_change : {1}]] : n \in AnalyticsSizes}

\* The store holds any such table, with the display ids and codes of the
\* rows in sequence.
InitAnalytics ==
    /\ now = MaxTime
    /\ \E os \in AnalyticsOrders :
          orders = [i \in 1..Len(os) |->
                      [os[i] EXCEPT !.display_id = i, !.ref_code = i]]
    /\ order_items = <<>>
    /\ carts = {}
    /\ cart_items = [u \in ApiUsers |-> <<>>]
    /\ co = [w \in Workers |-> IdleCo]
    /\ up = [w \in Workers |-> IdleUp]
    /\ events = {}
    /\ transactions = <<>>
    /\ inventory = [u \in SiteUsers |-> <<>>]
    /\ active_connections = [c \in Channels |-> {}]
    /\ connection_info = [ws \in Sockets |-> NoInfo]
    /\ client_state = [ws \in Sockets |-> "CONNECTING"]
    /\ broken = [ws \in Sockets |-> FALSE]
    /\ received = [ws \in Sockets |-> <<>>]
    /\ bc = IdleBc
    /\ published = 0
    /\ pub = IdlePub
    /\ ca = [w \in Workers |-> IdleCa]
    /\ analytics = NoAnalytics
    /\ joining = {}

\* The dashboard asks for the analytics over HTTP and a dashboard viewer
\* connects.
NextAnalytics ==
    \/ dashboard_analytics
    \/ \E ws \in FlakySockets : connect(ws, "admin_dashboard")

SpecAnalytics == InitAnalytics /\ [][NextAnalytics]_vars

\* The user ids a client gives in the query of /ws/orders/updates, NULL for
\* none.
ConnectUserIds == {NULL} \cup ApiUsers

\* The websockets that connect in the feed specification.
FeedSockets == {1, 2}

\* Viewers join the kitchen display and the order feed, subscribe and
\* re-subscribe to users' orders and drop, while channel passes and
\* per-user passes for the orders' owner run.
NextFeed ==
    \/ \E ws \in FeedSockets : connect(ws, "kitchen_display")
    \/ \E ws \in FeedSockets, u \in ConnectUserIds :
          connect_user_info(ws, "order_updates", u)
    \/ \E ws \in FeedSockets, u \in Users :
          /\ connection_info[ws].user_id # u
          /\ Len(received[ws]) < MaxMessages
          /\ subscribe_orders(ws, u)
    \/ \E ws \in FeedSockets : client_close(ws)
    \/ \E ws \in FlakySockets : transport_fails(ws)
    \/ \E ws \in FeedSockets : disconnect(ws)
    \/ \E c \in ViewerChannels : broadcast_begin(c)
    \/ \E ws \in FeedSockets : broadcast_send(ws)
    \/ broadcast_cleanup
    \/ \E u \in ApiUsers : broadcast_to_user_orders_begin(u)
    \/ broadcast_to_user_orders_scan
    \/ \E ws \in FeedSockets : broadcast_to_user_orders_send(ws)

SpecFeed == Init /\ [][NextFeed]_vars

\* Viewers join the kitchen display and the dashboard while an order is
\* created and moved on, and the broadcaster publishes the events from its
\* own thread between the two halves of a connect.
NextJoin ==
    \/ \E u \in ApiUsers, f \in MenuItems :
          orders = <<>> /\ add_item_to_cart(u, f, MaxQty)
    \/ \E u \in ApiUsers : Len(orders) + 1 \in TrackedOrders /\ create_order_begin(1, u)
    \/ ensure_unique_ref_code(1) /\ co'[1].ref_code = FirstRefCode
    \/ create_order_display_id(1)
    \/ create_order_insert(1)
    \/ create_order_items(1)
    \/ \E id \in TrackedOrders, s \in ApiRequests :
          NotYetChanged("api") /\ api_update_load(1, id, s)
    \/ api_update_commit(1)
    \/ \E ws \in Sockets : connect_register(ws, Endpoint(ws))
    \/ \E ws \in Sockets : send_initial_data(ws, Endpoint(ws))
    \/ \E ws \in Sockets : client_close(ws)
    \/ \E e \in events : broadcast_start(e)
    \/ broadcast_json_to_channel

SpecJoin == Init /\ [][NextJoin]_vars

\* Viewers of the kitchen display come and go while passes over the channel
\* run; a send may block on a receiver that does not read and keeps its
\* connection open.
NextStall ==
    \/ \E ws \in Sockets : connect(ws, "kitchen_display")
    \/ \E ws \in Sockets \ bc.stalled : client_close(ws)
    \/ \E ws \in Sockets : disconnect(ws)
    \/ broadcast_begin("kitchen_display")
    \/ \E ws \in Sockets : broadcast_send(ws)
    \/ \E ws \in Sockets : broadcast_send_blocks(ws)
    \/ broadcast_cleanup

\* The event loop runs a pass that can go on: each step of the loop of
\* broadcast_to_channel and its cleanup is taken once it is possible.
SpecStall ==
    /\ Init
    /\ [][NextStall]_vars
    /\ WF_vars(\E ws \in Sockets : broadcast_send(ws))
    /\ WF_vars(broadcast_cleanup)

(* ------------------------------- properties ---------------------------- *)
\* The immediate successor in pending -> preparing -> ready -> complete.
Successor(s) ==
    CASE s = PENDING -> PREPARING
      [] s = PREPARING -> READY
      [] s = READY -> COMPLETE
      [] OTHER -> "none"

\* C1: a status transition is accepted only when the requested status is
\* the immediate successor of the current one; every other request leaves
\* status and timestamps unchanged, so the stored status of an order only
\* ever advances one step at a time.
C1_OnlySuccessorAccepted ==
    [][\A i \in OrderIds :
          orders'[i] # orders[i] =>
              orders'[i].status = Successor(orders[i].status)]_vars

\* C2: no two orders in the store hold the same display number, under any
\* interleaving of concurrent create_order calls.
C2_DisplayIdsDistinct ==
    \A i, j \in OrderIds : i # j => orders[i].display_id # orders[j].display_id

\* Two checkouts computed the same display number and one of them has
\* inserted its order; the other is about to insert.
C2_Witness ==
    \E w \in Workers :
        /\ co[w].pc = "insert"
        /\ co[w].display_id \in DisplayIds(orders)
        /\ co[w].ref_code \notin RefCodesOf(orders)

\* C3: reference codes are pairwise distinct over all orders ever created,
\* by any checkout path.
C3_RefCodesDistinct ==
    /\ \A i, j \in OrderIds : i # j => orders[i].ref_code # orders[j].ref_code
    /\ \A i, j \in 1..Len(transactions) :
          i # j => transactions[i].ref_code # transactions[j].ref_code

\* C4: order creation, order-line creation and cart clearing are one
\* all-or-nothing unit: no state has an order without order lines, or an
\* order persisted while its source cart still holds the lines.
C4_AllOrNothing ==
    \A i \in OrderIds :
        /\ LinesOf(order_items, i) # <<>>
        /\ \A w \in Workers :
              (co[w].pc = "items" /\ co[w].order_id = i)
                  => cart_items[co[w].user_id] = <<>>

\* C5: a successful checkout of a cart with n lines yields an order with n
\* lines, one per cart line with its food item and its quantity, and leaves
\* the cart without lines, on either checkout path.
C5_LinesMatchCart ==
    [][/\ \A w \in Workers :
            (co[w].pc = "items" /\ co'[w].result = "order") =>
                LET u == co[w].user_id
                    lines == LinesOf(order_items', co[w].order_id)
                IN  /\ Len(lines) = Len(cart_items[u])
                    /\ \A k \in 1..Len(lines) :
                          /\ lines[k].food_item_id = cart_items[u][k].food_item_id
                          /\ lines[k].quantity = cart_items[u][k].quantity
                    /\ cart_items'[u] = <<>>
       /\ Len(transactions') > Len(transactions) =>
            LET t == transactions'[Len(transactions')]
                inv == inventory[t.owner]
            IN  /\ Cardinality(t.items) = Len(inv)
                /\ \A k \in 1..Len(inv) :
                      get_item_summary(t, inv[k].name) = inv[k].quantity
                /\ inventory'[t.owner] = <<>>]_vars

\* C6: a checkout for a user whose cart does not exist or has no lines
\* fails: no order is created, the cart is unchanged and no order-created
\* event is emitted, on either checkout path.
C6_EmptyCartRejected ==
    [][/\ \A w \in Workers :
            (/\ co[w].pc = "idle" /\ co'[w] # co[w]
             /\ \/ co'[w].user_id \notin carts
                \/ cart_items[co'[w].user_id] = <<>>)
            => /\ co'[w].pc = "idle" /\ co'[w].result = "None"
               /\ orders' = orders /\ cart_items' = cart_items /\ events' = events
       /\ \A u \in SiteUsers :
            inventory[u] = <<>> =>
                /\ ~ \E k \in 1..Len(transactions') :
                       k > Len(transactions) /\ transactions'[k].owner = u
                /\ \A e \in events' \ events :
                       ~ (e.type = "new_order" /\ e.source = "django")]_vars

\* The timestamps an order in each status has populated.
StampsConsistent(o) ==
    CASE o.status = PENDING ->
            o.date_preparing = NULL /\ o.date_ready = NULL /\ o.date_complete = NULL
      [] o.status = PREPARING ->
            o.date_preparing # NULL /\ o.date_ready = NULL /\ o.date_complete = NULL
      [] o.status = READY ->
            o.date_preparing # NULL /\ o.date_ready # NULL /\ o.date_complete = NULL
      [] o.status = COMPLETE ->
            o.date_preparing # NULL /\ o.date_ready # NULL /\ o.date_complete # NULL
      [] OTHER -> FALSE

\* C7: in every reachable state each order's transition timestamps are
\* consistent with its status.
C7_StampsConsistent ==
    \A i \in OrderIds : StampsConsistent(orders[i])

\* C8: entered-preparing >= created, entered-ready >= entered-preparing and
\* entered-complete >= entered-ready, whenever both sides are set.
C8_StampsMonotonic ==
    \A i \in OrderIds :
        LET o == orders[i]
        IN  /\ o.date_preparing # NULL => o.date_preparing >= o.date_ordered
            /\ (o.date_ready # NULL /\ o.date_preparing # NULL)
                  => o.date_ready >= o.date_preparing
            /\ (o.date_complete # NULL /\ o.date_ready # NULL)
                  => o.date_complete >= o.date_ready

\* C9: a status update whose loaded status and requested status form a
\* forward step writes the requested status and stamps the timestamp of the
\* stage entered with the current time; the other two transition
\* timestamps keep their values.
C9_ForwardStepStamps ==
    [][\A w \in Workers :
          (up[w].pc = "loaded" /\ up'[w].pc = "idle") =>
              LET old == up[w].old_status
                  new == up[w].new_status
                  o == orders[up[w].order_id]
                  o2 == orders'[up[w].order_id]
              IN  /\ (old = PENDING /\ new = PREPARING) =>
                        /\ o2.status = PREPARING
                        /\ o2.date_preparing = now
                        /\ o2.date_ready = o.date_ready
                        /\ o2.date_complete = o.date_complete
                  /\ (old = PREPARING /\ new = READY) =>
                        /\ o2.status = READY
                        /\ o2.date_ready = now
                        /\ o2.date_preparing = o.date_preparing
                        /\ o2.date_complete = o.date_complete
                  /\ (old = READY /\ new = COMPLETE) =>
                        /\ o2.status = COMPLETE
                        /\ o2.date_complete = now
                        /\ o2.date_preparing = o.date_preparing
                        /\ o2.date_ready = o.date_ready]_vars

\* An order that went through the three forward steps at distinct times,
\* the last one through the service entry point.
C9_Witness ==
    \E i \in OrderIds :
        /\ orders[i].status = COMPLETE
        /\ orders[i].date_preparing # NULL
        /\ orders[i].date_ready # NULL
        /\ orders[i].date_complete = MaxTime
        /\ orders[i].date_ordered < orders[i].date_complete
        /\ up[1].result = "order"

\* The connections a pass collected for removal.
Collected(b) == {b.connections_to_remove[k] : k \in 1..Len(b.connections_to_remove)}

\* How many times the event of pass m was sent to ws.
Deliveries(ws, m) ==
    Cardinality({k \in 1..Len(received[ws]) :
                    received[ws][k] = [type |-> "event", id |-> m]})

\* C10: a broadcast pass sends the event to every member that can be sent
\* to, goes on after a member fails, attempts each member once, and when it
\* ends every failed member is out of the registry while every other member
\* is registered as before.
C10_BroadcastIsolation ==
    [][/\ \A ws \in Sockets :
            (bc.pc = "iter" /\ ws \in bc.pending /\ ws \notin bc'.pending) =>
                /\ bc'.attempts[ws] = 1
                /\ IF CanSend(ws)
                   THEN /\ received'[ws] = Append(received[ws],
                                               [type |-> "event", id |-> bc.message])
                        /\ ws \notin Collected(bc')
                   ELSE /\ received'[ws] = received[ws]
                        /\ ws \in Collected(bc')
       /\ (bc.pc = "iter" /\ bc'.pc = "idle") =>
            /\ \A ws \in bc.snapshot : bc.attempts[ws] = 1
            /\ \A ws \in Collected(bc) :
                  /\ \A c \in Channels : ws \notin active_connections'[c]
                  /\ connection_info'[ws] = NoInfo
                  /\ Deliveries(ws, bc.message) = 0
            /\ \A ws \in bc.snapshot \ Collected(bc) :
                  /\ Deliveries(ws, bc.message) = 1
                  /\ connection_info'[ws] = connection_info[ws]
                  /\ \A c \in Channels :
                        ws \in active_connections'[c] <=> ws \in active_connections[c]]_vars

\* A finished pass over three members of which one was dead: the dead one
\* is out of the registry, the other two got the event and are registered.
C10_Witness ==
    /\ bc.pc = "idle"
    /\ Cardinality(bc.snapshot) = 3
    /\ Cardinality(Collected(bc)) = 1
    /\ \A ws \in Collected(bc) :
          /\ ws \notin active_connections[bc.channel]
          /\ connection_info[ws] = NoInfo
    /\ \A ws \in bc.snapshot \ Collected(bc) :
          /\ Deliveries(ws, bc.message) = 1
          /\ ws \in active_connections[bc.channel]

\* A publish of the log.
Published(log, channel, type) ==
    \E k \in 1..Len(log) : log[k] = [channel |-> channel, type |-> type]

\* The status-changed message of an event.
StatusChangeMessage(e) ==
    [type |-> "order_status_change", order_id |-> e.order_id, source |-> e.source]

\* C11: for every accepted status transition, whichever entry point
\* performs it, the status-changed event is published to kitchen_display,
\* to admin_dashboard and to every order_updates connection subscribed to
\* the owner of the order.
C11_StatusChangePublished ==
    [][/\ (/\ pub.pc = "run" /\ pub'.pc = "idle" /\ pub'.result = "done"
           /\ pub.event.type = "order_status_change")
          => /\ Published(pub'.log, "kitchen_display", "order_status_change")
             /\ Published(pub'.log, "admin_dashboard", "order_status_change")
             /\ Published(pub'.log, "order_updates", "order_status_change")
       /\ (/\ pub.pc = "run" /\ pub' # pub /\ pub'.result # "cancelled"
           /\ pub.event.type = "order_status_change"
           /\ Head(pub.todo) = "user_orders")
          => \A ws \in Sockets :
                (/\ connection_info[ws].channel = "order_updates"
                 /\ connection_info[ws].user_id = orders[pub.event.order_id].user_id
                 /\ CanSend(ws))
                => received'[ws] = Append(received[ws], StatusChangeMessage(pub.event))]_vars

\* The new_order messages a websocket has received.
NewOrdersReceived(ws) ==
    {k \in 1..Len(received[ws]) : received[ws][k].type = "new_order"}

\* C12: an order-created event is published to kitchen_display and
\* admin_dashboard only; no connection of the order_updates channel ever
\* gets it.
C12_NewOrderChannels ==
    [][/\ \A ws \in Sockets :
            (/\ Len(received'[ws]) > Len(received[ws])
             /\ received'[ws][Len(received'[ws])].type = "new_order")
            => /\ ws \notin active_connections["order_updates"]
               /\ connection_info[ws].channel \in {"kitchen_display", "admin_dashboard"}
       /\ (/\ pub.pc = "run" /\ pub'.pc = "idle" /\ pub'.result = "done"
           /\ pub.event.type = "new_order")
          => /\ Published(pub'.log, "kitchen_display", "new_order")
             /\ Published(pub'.log, "admin_dashboard", "new_order")
             /\ ~ Published(pub'.log, "order_updates", "new_order")]_vars

\* The order-created event of an order was published to its end: the
\* kitchen viewer got it, and the order_updates viewer that is subscribed
\* to the owner and can be sent to did not.
C12_Witness ==
    /\ pub.pc = "idle" /\ pub.result = "done" /\ pub.event.type = "new_order"
    /\ \E ws \in active_connections["kitchen_display"] : NewOrdersReceived(ws) # {}
    /\ \E ws \in active_connections["order_updates"] :
          /\ connection_info[ws].user_id = orders[pub.event.order_id].user_id
          /\ CanSend(ws)
          /\ NewOrdersReceived(ws) = {}

\* C13: every publish of a status-changed or order-created event is
\* followed at once by the publish of the recomputed kitchen snapshot to
\* kitchen_display, on every path that publishes such an event.
C13_SnapshotFollows ==
    [][(pub.pc = "run" /\ pub'.pc = "idle" /\ pub'.result = "done")
          => /\ pub'.log[Len(pub'.log)] =
                    [channel |-> "kitchen_display", type |-> "kitchen_update"]
             /\ \A ws \in active_connections["kitchen_display"] :
                    CanSend(ws) => received'[ws][Len(received'[ws])] =
                        [type |-> "kitchen_update",
                         data |-> [pending_orders |-> get_orders_by_status(orders, PENDING),
                                   preparing_orders |-> get_orders_by_status(orders, PREPARING),
                                   ready_orders |-> get_orders_by_status(orders, READY)]]]_vars

\* q lists exactly the orders of a status, each once.
IsQueueOf(q, status) ==
    /\ {q[k] : k \in 1..Len(q)} = {i \in OrderIds : orders[i].status = status}
    /\ Len(q) = Cardinality({i \in OrderIds : orders[i].status = status})

C16_StatusAlwaysKnown ==
    /\ \A i \in OrderIds : orders[i].status \in OrderStatus
    /\ \A i \in 1..Len(transactions) : transactions[i].status \in OrderStatus

\* C17: a status update addressed to an order id that is not in the store
\* returns not-found (None from the service, 404 from the API), changes no
\* order and hands no event to the broadcaster.
C17_MissingOrderNotFound ==
    [][\A w \in Workers :
          (/\ up[w].pc = "idle" /\ up'[w] # up[w]
           /\ up'[w].order_id # 0
           /\ up'[w].order_id \notin OrderIds)
          => /\ up'[w].pc = "idle"
             /\ up'[w].result \in {"None", "404"}
             /\ orders' = orders
             /\ events' = events]_vars

\* With one order in the store, the service and the API have each answered
\* a request for order 2.
C17_Witness ==
    /\ Len(orders) = 1
    /\ up[1].pc = "idle" /\ up[1].result = "None" /\ up[1].order_id = 2
    /\ up[2].pc = "idle" /\ up[2].result = "404" /\ up[2].order_id = 2

\* The display numbers of the completed orders.
Freed == {orders[i].display_id : i \in {j \in OrderIds : orders[j].status = COMPLETE}}

\* C18: once every display number of the range has been assigned and some
\* of the orders holding them have been completed, the next create_order
\* succeeds and gets a display number of a completed order, not a number
\* beyond the range and not a number of an order that is still open.
C18_FreedNumberReused ==
    [][\A w \in Workers :
          (/\ co[w].pc = "insert" /\ co'[w].pc # "insert"
           /\ DisplayIds(orders) = 1..MaxDisplayId
           /\ Freed # {})
          => /\ Len(orders') = Len(orders) + 1
             /\ orders'[Len(orders')].display_id \in Freed]_vars

\* C19: when two concurrent create_order calls computed the same display
\* number or reference code and the store rejects the later insert, the
\* losing call retries with fresh identifiers, so it fails only when no
\* display number or no reference code is free.
C19_ConflictRetried ==
    [][\A w \in Workers :
          (co[w].pc = "insert" /\ co'[w].pc = "idle" /\ co'[w].result = "None")
          => \/ (1..MaxDisplayId) \ DisplayIds(orders) = {}
             \/ RefCodes \ RefCodesOf(orders) = {}]_vars

\* C20: of two transition requests that read the same status of an order
\* before either commits, at most one is applied: the one that commits
\* after the row has changed fails with a conflict, writes nothing over
\* the winner's status and timestamps and hands no event to the
\* broadcaster.
C20_LoserConflicts ==
    [][\A w \in Workers :
          (/\ up[w].pc = "loaded" /\ up'[w].pc = "idle"
           /\ orders[up[w].order_id].status # up[w].old_status)
          => /\ orders' = orders
             /\ events' = events
             /\ up'[w].result = "conflict"]_vars

(* ------------------- C22: the last-status-change column ---------------- *)
\* The populated transition timestamps of an order row.
PopulatedStamps(o) ==
    {o.date_ordered} \cup
    {t \in {o.date_preparing, o.date_ready, o.date_complete} : t # NULL}

\* C22: every accepted status transition sets last_status_change of the
\* order to the time of the transition, so in every reachable state
\* last_status_change of an order is at or after each of its populated
\* transition timestamps.
C22_LastStatusChangeFollows ==
    \A i \in OrderIds :
        \A t \in PopulatedStamps(orders[i]) : orders[i].last_status_change >= t

StatusChangeEvent(id, source) ==
    [type |-> "order_status_change", order_id |-> id, source |-> source]

\* The API's step preparing -> ready of the order found the service's step
\* pending -> preparing committed: the two transitions are successive, the
\* service's first.
SuccessiveTransitions(id) == orders[id].date_ready # NULL

\* The websocket got the message of event e2 before the message of e1.
ReceivedBefore(ws, e2, e1) ==
    \E i, j \in 1..Len(received[ws]) :
        /\ i < j
        /\ received[ws][i] = StatusChangeMessage(e2)
        /\ received[ws][j] = StatusChangeMessage(e1)

\* C21: the status-changed events of two successive transitions of one
\* order reach every viewer in the order in which the transitions were
\* committed: no viewer gets the event of the second transition before the
\* event of the first.
C21_PublishOrderKept ==
    \A id \in OrderIds : \A ws \in Sockets :
        SuccessiveTransitions(id)
        => ~ ReceivedBefore(ws, StatusChangeEvent(id, "api"),
                                StatusChangeEvent(id, "service"))

(* ------------------------ C30: persist, then emit ---------------------- *)
\* The statuses an entry point asks for in the publishing specification.
RequestedBy(source) == IF source = "service" THEN ServiceRequests ELSE ApiRequests

\* The entry point other than the one given.
OtherEntry(source) == IF source = "service" THEN "api" ELSE "service"

\* The statuses the store can hold for the order once the transition of
\* the event is committed: the one of the transition, or the one of the
\* other entry point's transition when that has been committed too.
CommittedStatuses(e) ==
    RequestedBy(e.source) \cup
    (IF StatusChangeEvent(e.order_id, OtherEntry(e.source)) \in events
     THEN RequestedBy(OtherEntry(e.source)) ELSE {})

\* C30: when a viewer is sent the status-changed event of a transition,
\* the store already holds the committed transition: the status of the
\* order is the new status of that transition (or of a transition
\* committed besides it), never the status from before, and the timestamp
\* of the step is set with it.
C30_PersistBeforeEmit ==
    [][\A ws \in Sockets :
          (/\ Len(received'[ws]) = Len(received[ws]) + 1
           /\ received'[ws][Len(received'[ws])].type = "order_status_change")
          => LET m == received'[ws][Len(received'[ws])]
                 o == m.order_id
             IN  /\ o \in OrderIds
                 /\ orders[o].status \in CommittedStatuses(m)
                 /\ orders'[o] = orders[o]
                 /\ (/\ m.source = "service"
                     /\ StatusChangeEvent(o, "api") \notin events)
                    => orders[o].date_preparing # NULL]_vars

\* A viewer of kitchen_display has been sent the event of the API's
\* transition to ready, and the store holds ready for the order.
C30_Witness ==
    \E ws \in active_connections["kitchen_display"] :
        /\ \E k \in 1..Len(received[ws]) :
              received[ws][k] = StatusChangeMessage(StatusChangeEvent(1, "api"))
        /\ Len(orders) = 1
        /\ orders[1].status \in ApiRequests
        /\ StatusChangeEvent(1, "service") \notin events

(* ----------------------- C24: the per-user subscription ---------------- *)
\* The reply to subscribe_orders for a user.
UserOrdersUpdate(os, u) ==
    [type |-> "user_orders_update", data |-> [orders |-> get_user_orders(os, u)]]

\* The websocket is an order_updates connection with the user's scope,
\* subscribed before the user had an order, and can still be sent to.
SubscribedEarly(ws, u) ==
    /\ ws \in active_connections["order_updates"]
    /\ connection_info[ws].channel = "order_updates"
    /\ connection_info[ws].user_id = u
    /\ CanSend(ws)
    /\ \E k \in 1..Len(received[ws]) : received[ws][k] = UserOrdersUpdate(<<>>, u)

\* The broadcaster is through with the event.
PublicationOver(e) == e \in pub.taken /\ (pub.pc = "idle" \/ pub.event # e)

\* C24: an order_updates connection that sends subscribe_orders with a user
\* id gets that user's scope and is sent the user's current orders; from
\* then on, while it stays connected, it is sent the status-changed event
\* of every accepted transition of an order of that user.
C24_SubscriberGetsChanges ==
    /\ [][\A ws \in Sockets :
            (/\ connection_info[ws].channel = "order_updates"
             /\ connection_info[ws].user_id = NULL
             /\ connection_info'[ws].user_id # NULL)
            => received'[ws] = Append(received[ws],
                   UserOrdersUpdate(orders, connection_info'[ws].user_id))]_vars
    /\ [](\A e \in events : \A ws \in Sockets :
            (/\ e.type = "order_status_change"
             /\ e.order_id \in OrderIds
             /\ PublicationOver(e)
             /\ SubscribedEarly(ws, orders[e.order_id].user_id))
            => \E k \in 1..Len(received[ws]) :
                  received[ws][k] = StatusChangeMessage(e))

(* --------------------- C25: order items of a checkout ------------------ *)
\* GET /cart/items, total_items: the units in the cart, the sum of the
\* quantities of its lines.
RECURSIVE total_items(_)
total_items(lines) ==
    IF lines = <<>> THEN 0 ELSE Head(lines).quantity + total_items(Tail(lines))

\* C25: after a successful checkout the order has as many order items as
\* the cart had units (the sum of the quantities of its lines), the order
\* is pending, and the cart's total_items is 0.
C25_OneItemPerUnit ==
    [][\A w \in Workers :
          (co[w].pc = "items" /\ co'[w].pc = "idle" /\ co'[w].result = "order")
          => LET u == co[w].user_id
                 id == co[w].order_id
             IN  /\ Len(LinesOf(order_items', id)) = total_items(cart_items[u])
                 /\ orders'[id].status = PENDING
                 /\ total_items(cart_items'[u]) = 0]_vars

(* --------------------------- C27, C28: the cart ------------------------ *)
\* The units of a menu item in a cart.
UnitsOf(lines, f) == total_items(SelectSeq(lines, LAMBDA l : l.food_item_id = f))

\* C27: adding a menu item that is in the cart already increases the
\* quantity of its line and creates no second line: after any sequence of
\* add-to-cart calls of one user, concurrent ones included, the cart has
\* at most one line per menu item, and every add that is carried out
\* raises the units of its item by the quantity added.
C27_OneLinePerItem ==
    /\ [](\A u \in ApiUsers : \A j, k \in 1..Len(cart_items[u]) :
             j # k => cart_items[u][j].food_item_id # cart_items[u][k].food_item_id)
    /\ [][\A w \in Workers :
            (/\ ca[w].pc = "queried" /\ ca'[w].pc = "idle"
             /\ cart_items' # cart_items)
            => UnitsOf(cart_items'[ca[w].user_id], ca[w].food_item_id)
                   = UnitsOf(cart_items[ca[w].user_id], ca[w].food_item_id)
                     + ca[w].quantity]_vars

\* C28: every order line of every order has a quantity of at least 1,
\* whatever cart operations came before the checkout.
C28_QuantityAtLeastOne ==
    \A i \in 1..Len(order_items) : order_items[i].quantity >= 1

(* ------------------------- C26: staff-only updates --------------------- *)
\* A step that is a status update request of a user who is not staff,
\* through any entry point that takes a user's request.
NonStaffStatusUpdate ==
    \E u \in Users \ StaffUsers, s \in OrderStatus \cup {INVALID_STATUS} :
        \/ \E id \in TrackedOrders : operations_update_order_status(u, id, s)
        \/ \E id \in TrackedOrders : api_update_order_status(u, id, s)
        \/ \E w \in Workers, id \in UpdateIds : put_order_status(w, u, id, s)

\* C26: a status update requested by a user who is not staff is refused:
\* no order of either store changes its status or its timestamps, and no
\* status-changed event is handed to a broadcaster, whatever the order and
\* the requested status.
C26_NonStaffRefused ==
    [][NonStaffStatusUpdate
          => /\ orders' = orders
             /\ transactions' = transactions
             /\ events' = events]_vars

(* ------------------------- C23: guarded averages ----------------------- *)
\* The averages of the analytics answer.
AverageNames == {"avg_time_to_preparing", "avg_time_to_ready",
                 "avg_time_to_complete", "avg_total_time"}

\* Some completed order of the store satisfies P.
SomeCompleted(P(_)) ==
    \E k \in 1..Len(CompletedOrders(orders)) : P(CompletedOrders(orders)[k])

\* a, in units of 1/scale, is the mean of the durations xs rounded to the
\* nearest unit.
IsMeanOf(a, xs, scale) ==
    LET diff == scale * SumSeq(xs) - a * Len(xs)
    IN  /\ 2 * diff <= Len(xs)
        /\ 2 * (0 - diff) <= Len(xs)

\* C23: the analytics computation answers for every order table without
\* raising.  With no completed order every average is 0; with completed
\* orders, an average none of them has the timestamps for is 0 and the
\* other averages are the means of the durations they are taken over.
C23_AnalyticsGuarded ==
    /\ (analytics # NoAnalytics) =>
          LET done == CompletedOrders(orders)
          IN  /\ \A f \in AverageNames : analytics[f] # ZeroDivisionError
              /\ (Len(done) = 0) => \A f \in AverageNames : analytics[f] = Number(0)
              /\ IF SomeCompleted(LAMBDA o : o.date_preparing # NULL)
                 THEN IsMeanOf(analytics.avg_time_to_preparing.value,
                               times_to_preparing(done), 100)
                 ELSE analytics.avg_time_to_preparing = Number(0)
              /\ IF SomeCompleted(LAMBDA o : o.date_ready # NULL /\ o.date_preparing # NULL)
                 THEN IsMeanOf(analytics.avg_time_to_ready.value,
                               times_to_ready(done), 100)
                 ELSE analytics.avg_time_to_ready = Number(0)
              /\ IF SomeCompleted(LAMBDA o : o.date_complete # NULL /\ o.date_ready # NULL)
                 THEN IsMeanOf(analytics.avg_time_to_complete.value,
                               times_to_complete(done), 100)
                 ELSE analytics.avg_time_to_complete = Number(0)
              /\ IF SomeCompleted(LAMBDA o : o.date_complete # NULL)
                 THEN IsMeanOf(analytics.avg_total_time.value, total_times(done), 100)
                 ELSE analytics.avg_total_time = Number(0)
    /\ \A ws \in Sockets : \A k \in 1..Len(received[ws]) :
          (received[ws][k].type = "dashboard_analytics")
          => LET t == received[ws][k].data.timing_analytics.avg_total_time
             IN  /\ t # ZeroDivisionError
                 /\ received[ws][k].data.total_orders = Len(orders)
                 /\ (~ SomeCompleted(LAMBDA o : o.date_complete # NULL))
                        => (t = Number(0))

\* The analytics were answered for a store with completed orders of which
\* none has date_preparing and some have date_complete: the first average
\* is 0, the total time is computed, and a dashboard viewer got its
\* analytics too.
C23_Witness ==
    /\ analytics # NoAnalytics
    /\ Len(CompletedOrders(orders)) = 2
    /\ ~ SomeCompleted(LAMBDA o : o.date_preparing # NULL)
    /\ SomeCompleted(LAMBDA o : o.date_complete # NULL)
    /\ analytics.avg_time_to_preparing = Number(0)
    /\ analytics.avg_total_time # Number(0)
    /\ \E ws \in Sockets : \E k \in 1..Len(received[ws]) :
          received[ws][k].type = "dashboard_analytics"

(* ------------------- removal of failed connections -------------------- *)
\* A step of the running broadcast pass.
PassStep == bc.pc # "idle" /\ bc' # bc

\* The step takes some connection out of the registry.
Unregisters ==
    \/ \E c \in Channels : active_connections[c] \ active_connections'[c] # {}
    \/ \E ws \in Sockets : connection_info[ws] # NoInfo /\ connection_info'[ws] = NoInfo

\* C31: a step of a broadcast pass, of a channel or of one user's
\* connections, takes a connection out of the registry only when a send
\* has been attempted for every connection the pass addresses: failed
\* connections are collected during the pass and unregistered after it.
C31_RemovalAfterPass ==
    [][(PassStep /\ Unregisters) => bc'.pending = {}]_vars

(* --------------------- the connections a pass reads -------------------- *)
\* C32: a broadcast pass works on a point-in-time copy of the registry:
\* connects and disconnects that go on while the pass runs never make it
\* fail, and only connections that were registered when the pass started
\* are sent its message.
C32_PassOverSnapshot ==
    /\ [](bc.error = "-")
    /\ [][\A ws \in Sockets :
            (PassStep /\ received'[ws] # received[ws]) =>
                ws \in bc.snapshot]_vars

(* -------------------- the user id attached at connect ------------------ *)
\* The connect metadata of the connection name the user.
MatchesUserInfo(info, user_id) ==
    info.channel = "order_updates" /\ info.user_info = user_id

\* The pass examines this connection's entry in this step.
Examines(ws) ==
    bc.pc = "scan" /\ ws \in bc.pending /\ ws \notin bc'.pending /\ bc'.error = "-"

\* C35: when the per-user pass for the owner of an order examines a
\* connection of order_updates whose connect metadata name that user, it
\* selects the connection for the status-changed event, whether or not the
\* connection sent subscribe_orders afterwards.
C35_ConnectUserIdMatched ==
    [][\A ws \in Sockets :
          (Examines(ws) /\ MatchesUserInfo(connection_info[ws], bc.user_id)) =>
              ws \in bc'.snapshot]_vars

(* ----------------------- isolation of per-user feeds ------------------- *)
\* The step delivers a status-changed event of an order of user u to ws on
\* the order_updates channel.
DeliversUserEvent(ws, u) ==
    /\ bc.pc = "notify"
    /\ bc.user_id = u
    /\ received'[ws] = Append(received[ws], UserEventMessage(bc))

\* C39: a status-changed event of an order of user U is delivered on
\* order_updates only to a connection that is subscribed to U at the time
\* of the delivery: not to one subscribed to another user or to none, and
\* not to one that has re-subscribed from U to another user.
C39_FeedsIsolated ==
    [][\A ws \in Sockets, u \in Users :
          DeliversUserEvent(ws, u) =>
              MatchesUser(connection_info[ws], u)]_vars

(* ------------------ agreement of the registry's structures ------------- *)
\* The channel sets that hold the websocket.
ChannelsOf(ws) == {c \in Channels : ws \in active_connections[c]}

\* C40: whatever connects, disconnects, send failures and broadcast passes
\* have happened, a websocket has an entry in connection_info exactly when
\* it is a member of one channel set, that set is the channel of its entry,
\* and no websocket is a member of two channel sets.
C40_RegistryAgrees ==
    \A ws \in Sockets :
        /\ Cardinality(ChannelsOf(ws)) <= 1
        /\ connection_info[ws] # NoInfo <=>
               ChannelsOf(ws) = {connection_info[ws].channel}
        /\ connection_info[ws] = NoInfo <=> ChannelsOf(ws) = {}

\* A websocket was registered, a pass failed to send to it and removed it,
\* and another websocket is still registered.
C40_Witness ==
    \E ws \in Sockets : \E other \in Sockets \ {ws} :
        /\ bc.pc = "idle"
        /\ bc.attempts[ws] = 1
        /\ client_state[ws] # "CONNECTING"
        /\ connection_info[ws] = NoInfo
        /\ ChannelsOf(ws) = {}
        /\ connection_info[other] # NoInfo

(* ------------------- the first message of a new viewer ----------------- *)
\* The websocket is registered on the channel and its connect call has not
\* sent the initial data yet.
AwaitsInitialData(ws, channel) == <<ws, channel>> \in joining

\* C38: between its registration on kitchen_display or admin_dashboard and
\* the initial snapshot that connect sends, a viewer is sent nothing else:
\* the snapshot is the first message it receives.
C38_SnapshotFirst ==
    [][\A ws \in Sockets, c \in {"kitchen_display", "admin_dashboard"} :
          (AwaitsInitialData(ws, c) /\ received'[ws] # received[ws]) =>
              /\ ~ AwaitsInitialData(ws, c)'
              /\ received'[ws] = received[ws] \o InitialData(c)]_vars

(* --------------------------- a slow receiver --------------------------- *)
\* C33: a send that never completes holds up nobody else: every healthy
\* member of the pass other than the one whose send blocks is eventually
\* sent the message (or stops being healthy first).
C33_SlowReceiverIsolated ==
    \A ws \in Sockets :
        (bc.pc # "idle" /\ ws \in bc.pending /\ CanSend(ws))
            ~> (ws \notin bc.pending \/ ws \in bc.stalled \/ ~ CanSend(ws))

(* ----------------------- what a status update leaves ------------------- *)
\* The columns of an order that are neither the status nor a timestamp of a
\* transition.
Identity(o) ==
    [display_id |-> o.display_id, ref_code |-> o.ref_code,
     customer_name |-> o.customer_name, user_id |-> o.user_id,
     date_ordered |-> o.date_ordered]

\* The step is the commit of worker w's status update.
CommitsUpdate(w) == up[w].pc = "loaded" /\ up'[w].pc = "idle"

\* C34: no step deletes an order or an order line or changes an order's
\* reference code, display number, customer name or owner, and the commit
\* of a status update changes nothing but the status and the timestamps of
\* the order it addresses: the order lines and every other order stay as
\* they are.
C34_UpdateFrame ==
    [][/\ Len(orders') >= Len(orders)
       /\ \A i \in 1..Len(orders) : Identity(orders'[i]) = Identity(orders[i])
       /\ Len(order_items') >= Len(order_items)
       /\ SubSeq(order_items', 1, Len(order_items)) = order_items
       /\ \A w \in Workers :
             CommitsUpdate(w) =>
                 /\ order_items' = order_items
                 /\ Len(orders') = Len(orders)
                 /\ \A i \in 1..Len(orders) :
                       i # up[w].order_id => orders'[i] = orders[i]]_vars

\* Two orders with their lines are in the store and a status update has
\* moved one of them while the other is still pending.
C34_Witness ==
    /\ Len(orders) = 2
    /\ \E i, j \in 1..Len(orders) :
          /\ orders[i].status # PENDING
          /\ orders[j].status = PENDING
          /\ LinesOf(order_items, i) # <<>>
          /\ LinesOf(order_items, j) # <<>>
    /\ \E w \in Workers : up[w].pc = "idle" /\ up[w].result \in {"order", "200"}

(* -------------------- the broadcasts of OrderService ------------------- *)
\* The events OrderService hands to the broadcaster: new_order from
\* create_order, order_status_change from update_order_status.
ServiceEvents ==
    {[type |-> "new_order", order_id |-> id, source |-> "fastapi"] : id \in TrackedOrders}
    \cup {[type |-> "order_status_change", order_id |-> id, source |-> "service"] :
             id \in TrackedOrders}

\* C36: a broadcast that OrderService has started for a created order or an
\* accepted transition runs to its end: every publish of the event, the
\* kitchen_update included, is made to the connections then registered and
\* healthy; the broadcast is not cancelled on the way.
C36_BroadcastCompletes ==
    \A e \in ServiceEvents :
        (pub.pc = "run" /\ pub.event = e)
            ~> (pub.pc = "idle" /\ pub.event = e /\ pub.result = "done")

(* ------------------- the outcome reported to the caller ---------------- *)
\* C37: the outcome a call reports agrees with the store.  A create_order
\* that returns None has left no order of its own in the store and the
\* lines of the user's cart as they were; an update_order_status that
\* returns None has changed no order.
C37_ReportedFailureAgrees ==
    [][\A w \in Workers :
          /\ (co'[w] # co[w] /\ co'[w].result = "None") =>
                /\ co[w].order_id \notin 1..Len(orders')
                /\ cart_items'[co'[w].user_id] = cart_items[co'[w].user_id]
          /\ (up'[w] # up[w] /\ up'[w].result = "None") => orders' = orders]_vars

====
